---- MODULE Spec2Model ----
(***************************************************************************)
(* Model of nnSeq2SeqPredictor (nnseq2seq/inference/predict_from_raw_data) *)
(*                                                                         *)
(* The module holds one group of variables per modelled operation and one  *)
(* specification per group:                                                *)
(*   SpecSW    predict_sliding_window_return_logits and the internal       *)
(*             sliding-window execution it calls                           *)
(*   SpecIter  predict_from_data_iterator and the export pool              *)
(*   SpecFiles predict_from_files                                          *)
(*   SpecLists _manage_input_and_output_lists                              *)
(* A specification leaves the variables of the other groups at their idle  *)
(* values.                                                                 *)
(***************************************************************************)
EXTENDS Integers, Sequences, FiniteSets, TLC

VARIABLES
    \* sliding-window group
    device,          \* self.device.type
    performOnDevice, \* self.perform_everything_on_device
    passedOnDevice,  \* perform_everything_on_device as passed to __init__
    swPc,            \* position in predict_sliding_window_return_logits
    swBranch,        \* which branch of line 832 was taken: "try" or "else"
    numTiles,        \* len(slicers)
    attemptNo,       \* number of calls of the internal execution so far
    doOnDevice,      \* do_on_device of the running internal execution
    inPc,            \* position in _internal_predict_sliding_window_return_logits
    tileIdx,         \* tiles accumulated by the running internal execution
    infLogits,       \* predicted_logits holds an inf after the division
    infMask,         \* predicted_mask_logits holds an inf after the division
    infLatent,       \* predicted_latent_space holds an inf after the division
    excInFlight,     \* exception raised inside the try block of the execution
    tileLocals,      \* prediction_mask and latent_space are bound (line 777 ran)
    excOut,          \* exception that left the running internal execution
    attemptsLog,     \* one record per finished internal execution
    cacheClears,     \* empty_cache calls of the running handler
    swResult,        \* <<>>, or the one triple of tensors the call returned
    swRaised,        \* exception that left predict_sliding_window_return_logits
    \* data-iterator group
    itPc,         \* position in predict_from_data_iterator
    numChannel,   \* properties['num_channel']
    exportWorkers,\* num_processes_segmentation_export
    nCases,       \* number of records the data iterator yields
    caseIdx,      \* number of records fetched so far
    ofileNone,    \* preprocessed['ofile'] of the current record is None
    avail,        \* properties['available_channel'] of the current record
    tgtSeq,       \* tgt_seq of the target loop
    srcIdx,       \* 1-based position of the source loop in avail
    rCount,       \* len(r): export jobs submitted so far
    rCase,        \* the entries of r submitted for the current record
    steps,        \* (target, source) steps started for the current record
    nReady,       \* number of entries of r whose result is ready
    poolOpen,     \* inside the with block of the export pool
    ret,          \* indices of the entries of r retrieved by line 511
    itRaised,     \* exception that left predict_from_data_iterator
    endClears,    \* caches reset by the closing lines 543-545
    deviceCleared,\* empty_cache(self.device) has been called during the run
    md,            \* the imaging-differentiation map: sources summed, divisor
    mdSent,        \* the maps submitted for the current case
    \* arguments and result of _manage_input_and_output_lists
    srcList,      \* list_of_lists_or_source_folder as a list: one case id per case
    outKind,      \* output spec: "folder", "list" or "none"
    outList,      \* the output spec when it is a list: one path id per entry
    prevGiven,    \* folder_with_segs_from_prev_stage is not None
    overwrite,    \* overwrite
    saveProb,     \* save_probabilities
    partId,       \* part_id
    numParts,     \* num_parts
    labelFiles,   \* path ids p with isfile(p + file_ending)
    npzFiles,     \* path ids p with isfile(p + '.npz')
    lsPc,         \* position of the call of _manage_input_and_output_lists
    lsResult,     \* what _manage_input_and_output_lists returned or raised
    \* predict_from_files group
    flPc,          \* position in predict_from_files
    cascaded,      \* configuration_manager.previous_stage_name is not None
    tsfChannels,   \* self.network.tsf.num_channel
    outputFolder,  \* output_folder of lines 217-222: "unset", "none" or "folder"
    filesWritten,  \* files written to output_folder
    tsRows,        \* rows of task-specific_sequence_contribution.csv
    caseListBuilt, \* _manage_input_and_output_lists has been called
    workList,      \* the work list it returned
    predictionsRun,\* image predictions run by the delegated call
    flRaised,      \* exception that left predict_from_files
    \* auto_detect_available_folds
    fdDirs,        \* the subfolders of model_training_output_dir
    fdCheckpoints, \* the subfolders that hold the file checkpoint_name
    fdPc,          \* position of the call
    fdResult,      \* the list the call returned
    \* geometry of predict_sliding_window_return_logits
    gmShape,       \* input_image.shape[1:]
    gmPatch,       \* configuration_manager.patch_size
    gmFrac,        \* tile_step_size as a fraction num/den
    gmPc,          \* position in the call
    gmPadded,      \* data.shape[1:] after pad_nd_image
    gmSlicer,      \* slicer_revert_padding[1:]: one <<start, stop>> per axis
    gmSteps,       \* the offsets of every axis
    gmOut,         \* spatial shapes of the three returned tensors
    \* predict_logits_from_preprocessed_data and predict_single_npy_array
    ambientThreads,\* torch.get_num_threads() before the call
    torchThreads,  \* the thread count of torch
    savedThreads,  \* n_threads of line 596
    numFolds,      \* len(self.list_of_parameters)
    foldIdx,       \* folds predicted by the running call
    plPc,          \* position in predict_logits_from_preprocessed_data
    plRaised,      \* exception that left predict_logits_from_preprocessed_data
    npOutputGiven, \* output_file_truncated is not None
    npSaveProb,    \* save_or_return_probabilities
    npPc,          \* position in predict_single_npy_array
    npResult,      \* what predict_single_npy_array returned
    npRaised,      \* exception that left predict_single_npy_array
    plLoaded,      \* the parameter set the network holds, 0: the one before the call
    plPasses,      \* per sliding-window pass, the parameter set it ran with
    plSums,        \* per output, the passes summed into it
    plDivisor,     \* what the three sums were divided by, 0 when undivided
    \* end-of-run contribution report of predict_from_data_iterator
    rpN,           \* N = self.network.tsf.num_channel
    rpTable,       \* self.one2one_translate_psnr
    rpPc,          \* position: the sweep, then lines 517-540
    rpA,           \* the matrix A of lines 519-529
    rpRows,        \* sbsc: the rows of the report
    \* _internal_maybe_mirror_and_predict
    mrUse,         \* self.use_mirroring
    mrAxes,        \* self.allowed_mirroring_axes: given or None, and the axes
    mrNdim,        \* x.ndim
    mrFusion,      \* properties is not None
    mrNumChannel,  \* properties['num_channel']
    mrAvail,       \* the channels of properties['available_channel']
    mrTarget,      \* the index target_code is the one-hot of
    mrPc,          \* position in the call
    mrTodo,        \* combinations of axes_combinations still to run
    mrPrediction,  \* the sub-predictions summed into prediction
    mrMask,        \* the sub-predictions summed into prediction_mask
    mrLatent,      \* the sub-predictions summed into latent_space
    mrPasses,      \* forward passes run
    mrDivisor,     \* what the three sums were divided by, 0 when undivided
    mrTgtCode,     \* tsf_tgt_code
    mrSegCode,     \* tsf_seg_code
    mrRaised,      \* exception that left the call
    \* _internal_get_sliding_window_slicers
    scImage,       \* image_size: the spatial shape of the padded data
    scPatch,       \* configuration_manager.patch_size
    scFrac,        \* self.tile_step_size
    scPc,          \* position in the call
    scSteps,       \* steps
    scSlicers,     \* slicers
    scRaised,      \* exception that left the call
    \* ImageEncoder
    enStrides,     \* args['conv_stride'], one stride per stage
    enInput,       \* extent of a spatial axis of the input
    enPc,          \* position in forward
    enStage,       \* stages run
    enX,           \* extent of x on that axis
    enFeatures,    \* extents of the entries of features
    enOut,         \* extent of the returned latent zq
    enRaised,      \* exception that left forward
    \* the command-line entry points
    clEntry,       \* which entry point runs
    clFlagGiven,   \* --disable_tta is on the command line
    clDevice,      \* -device
    clPartId,      \* -part_id
    clNumParts,    \* -num_parts
    clPc,          \* position in the entry point
    clDisableTta,  \* args.disable_tta
    clUseMirroring,\* use_mirroring the predictor is constructed with
    clRaised,      \* exception that left the entry point
    \* the tile loop of _internal_predict_sliding_window_return_logits
    nmImage,       \* data.shape[1:]
    nmPatch,       \* configuration_manager.patch_size
    nmFrac,        \* self.tile_step_size
    nmGaussian,    \* self.use_gaussian
    nmSlicers,     \* slicers
    nmTile,        \* tiles done
    nmPc,          \* position in the call
    nPredictions,  \* n_predictions, per voxel
    nmHits,        \* per voxel, the tiles that incremented n_predictions
    accLogits,     \* per voxel, the weight summed into predicted_logits
    accMask,       \* per voxel, the weight summed into predicted_mask_logits
    accLatent,     \* per voxel, the weight summed into predicted_latent_space
    nmDivByZero,   \* a division of lines 788-790 had a zero divisor
    \* self.one2one_translate_psnr over the runs of one predictor
    psN,           \* network.tsf.num_channel
    psRun,         \* the predict_from_files run, counted from 1
    psOutputNone,  \* the output spec of the run is None
    psPc,          \* position in the run
    psTable,       \* the attribute: bound or not, observations per pair
    psProcessed    \* available channels of the cases processed in the run

swVars == <<device, performOnDevice, passedOnDevice, swPc, swBranch, numTiles,
            attemptNo,
            doOnDevice, inPc, tileIdx, infLogits, infMask, infLatent,
            excInFlight, tileLocals, excOut, attemptsLog, cacheClears,
            swResult, swRaised>>

itVars == <<itPc, numChannel, exportWorkers, nCases, caseIdx, ofileNone, avail,
            tgtSeq, srcIdx, rCount, rCase, steps, nReady, poolOpen, ret,
            itRaised, endClears, deviceCleared,
            md, mdSent>>

lsVars == <<srcList, outKind, outList, prevGiven, overwrite, saveProb, partId,
            numParts, labelFiles, npzFiles, lsPc, lsResult>>

flVars == <<flPc, cascaded, tsfChannels, outputFolder, filesWritten, tsRows,
            caseListBuilt, workList, predictionsRun, flRaised>>

fdVars == <<fdDirs, fdCheckpoints, fdPc, fdResult>>

\* the groups of the operations modelled as functions of their arguments
gmVars == <<gmShape, gmPatch, gmFrac, gmPc, gmPadded, gmSlicer, gmSteps, gmOut>>

plVars == <<ambientThreads, torchThreads, savedThreads, numFolds, foldIdx, plPc,
            plRaised, npOutputGiven, npSaveProb, npPc, npResult, npRaised,
            plLoaded, plPasses, plSums, plDivisor>>

rpVars == <<rpN, rpTable, rpPc, rpA, rpRows>>

mrVars == <<mrUse, mrAxes, mrNdim, mrFusion, mrNumChannel, mrAvail, mrTarget,
             mrPc, mrTodo, mrPrediction, mrMask, mrLatent, mrPasses,
             mrDivisor, mrTgtCode, mrSegCode, mrRaised>>

scVars == <<scImage, scPatch, scFrac, scPc, scSteps, scSlicers, scRaised>>

enVars == <<enStrides, enInput, enPc, enStage, enX, enFeatures, enOut,
             enRaised>>

clVars == <<clEntry, clFlagGiven, clDevice, clPartId, clNumParts, clPc,
             clDisableTta, clUseMirroring, clRaised>>

nmVars == <<nmImage, nmPatch, nmFrac, nmGaussian, nmSlicers, nmTile, nmPc,
             nPredictions, nmHits, accLogits, accMask, accLatent,
             nmDivByZero>>

psVars == <<psN, psRun, psOutputNone, psPc, psTable, psProcessed>>

fnVars == <<fdVars, gmVars, plVars, rpVars, mrVars, scVars, enVars, clVars, nmVars, psVars>>

vars == <<swVars, itVars, lsVars, flVars, fnVars>>

\* what the actions of one group leave alone
notSW == <<itVars, lsVars, flVars, fnVars>>
notIt == <<swVars, lsVars, flVars, fnVars>>
notLs == <<swVars, itVars, flVars, fnVars>>
notFl == <<swVars, itVars, fnVars>>
notFd == <<swVars, itVars, lsVars, flVars, gmVars, plVars, rpVars, mrVars, scVars, enVars, clVars, nmVars, psVars>>
notGm == <<swVars, itVars, lsVars, flVars, fdVars, plVars, rpVars, mrVars, scVars, enVars, clVars, nmVars, psVars>>
notPl == <<swVars, itVars, lsVars, flVars, fdVars, gmVars, rpVars, mrVars, scVars, enVars, clVars, nmVars, psVars>>
notRp == <<swVars, itVars, lsVars, flVars, fdVars, gmVars, plVars, mrVars, scVars, enVars, clVars, nmVars, psVars>>
notMr == <<swVars, itVars, lsVars, flVars, fdVars, gmVars, plVars, rpVars, scVars, enVars, clVars, nmVars, psVars>>
notSc == <<swVars, itVars, lsVars, flVars, fdVars, gmVars, plVars, rpVars, mrVars, enVars, clVars, nmVars, psVars>>
notEn == <<swVars, itVars, lsVars, flVars, fdVars, gmVars, plVars, rpVars, mrVars, scVars, clVars, nmVars, psVars>>
notCl == <<swVars, itVars, lsVars, flVars, fdVars, gmVars, plVars, rpVars, mrVars, scVars, enVars, nmVars, psVars>>
notNm == <<swVars, itVars, lsVars, flVars, fdVars, gmVars, plVars, rpVars, mrVars, scVars, enVars, clVars, psVars>>
notPs == <<swVars, itVars, lsVars, flVars, fdVars, gmVars, plVars, rpVars, mrVars, scVars, enVars, clVars, nmVars>>

(***************************************************************************)
(* Bounds of the model                                                     *)
(***************************************************************************)
MaxTiles == 2
MaxChannels == 2
MaxCases == 2
ExportWorkers == 2
MaxListCases == 3
MaxParts == 2
MaxFileCases == 2
MaxFold == 2
MaxExtent == 4
MaxPatch == 3
GeomAxes == 2
MaxThreads == 10
MaxEnsemble == 2
MaxReportChannels == 2
MaxObservations == 3
MaxCodeChannels == 2
MaxTileExtent == 3
MaxStages == 3
MaxStride == 3
MaxBlocks == 2
MaxNormExtent == 2
MaxRuns == 2
MaxRunCases == 2

(***************************************************************************)
(* Sliding-window group                                                    *)
(***************************************************************************)

Devices == {"cuda", "cpu", "mps"}

\* Exceptions a step of the internal execution can raise.  "OOM" is
\* torch.cuda.OutOfMemoryError, a subclass of RuntimeError; "Runtime" is any
\* other RuntimeError raised by the runtime; "InfCheck" is the RuntimeError
\* the inf check raises itself; "Other" is an exception that is no RuntimeError.
InjectedKinds == {"OOM", "Runtime", "Other"}
RuntimeErrorKinds == {"OOM", "Runtime", "InfCheck"}

\* ConstructorFlag keeping the passed value on every device
ConstructorFlagKeep(dev, passed) == passed

\* nnSeq2SeqPredictor.__init__: a non-cuda device forces the flag off
ConstructorFlag(dev, passed) == IF dev # "cuda" THEN FALSE ELSE passed

\* line 832: torch.device compared with the string 'cpu' is never equal
TakesTryBranch(perform, dev) == perform /\ TRUE

\* line 837: except RuntimeError
CaughtByFallback(exc) == exc \in RuntimeErrorKinds

\* line 792: the inf check reads predicted_logits only
InfCheckFires(logitsInf, maskInf, latentInf) == logitsInf

SWInit ==
    /\ device \in Devices
    /\ passedOnDevice \in BOOLEAN
    /\ performOnDevice = ConstructorFlag(device, passedOnDevice)
    /\ swPc = "idle"
    /\ swBranch = "none"
    /\ numTiles = 0
    /\ attemptNo = 0
    /\ doOnDevice = FALSE
    /\ inPc = "none"
    /\ tileIdx = 0
    /\ infLogits = FALSE /\ infMask = FALSE /\ infLatent = FALSE
    /\ excInFlight = "none"
    /\ tileLocals = FALSE
    /\ excOut = "none"
    /\ attemptsLog = <<>>
    /\ cacheClears = 0
    /\ swResult = <<>>
    /\ swRaised = "none"

\* the state of the group when another operation is modelled
SWIdle ==
    /\ device = "cuda"
    /\ performOnDevice = TRUE
    /\ passedOnDevice = TRUE
    /\ swPc = "idle"
    /\ swBranch = "none"
    /\ numTiles = 0
    /\ attemptNo = 0
    /\ doOnDevice = FALSE
    /\ inPc = "none"
    /\ tileIdx = 0
    /\ infLogits = FALSE /\ infMask = FALSE /\ infLatent = FALSE
    /\ excInFlight = "none"
    /\ tileLocals = FALSE
    /\ excOut = "none"
    /\ attemptsLog = <<>>
    /\ cacheClears = 0
    /\ swResult = <<>>
    /\ swRaised = "none"

\* entry of the internal execution: lines 742-746
EnterInternal(onDevice) ==
    /\ attemptNo' = attemptNo + 1
    /\ doOnDevice' = onDevice
    /\ inPc' = "alloc"
    /\ tileIdx' = 0
    /\ infLogits' = FALSE /\ infMask' = FALSE /\ infLatent' = FALSE
    /\ excInFlight' = "none"
    /\ tileLocals' = FALSE
    /\ excOut' = "none"
    /\ cacheClears' = 0

\* lines 803-844: pad, build the slicers, choose the branch, first call
SWStart ==
    /\ swPc = "idle"
    /\ \E n \in 1..MaxTiles : numTiles' = n
    /\ swBranch' = IF TakesTryBranch(performOnDevice, device) THEN "try" ELSE "else"
    /\ swPc' = "calling"
    /\ EnterInternal(performOnDevice)
    /\ UNCHANGED <<device, performOnDevice, passedOnDevice,
                   attemptsLog, swResult, swRaised>>
    /\ UNCHANGED notSW

\* a step inside the try block raises
RaiseInside(kind) ==
    /\ excInFlight' = kind
    /\ inPc' = "except"

\* lines 751-769: move the data, preallocate the accumulators, the gaussian
InternalAlloc ==
    /\ swPc = "calling" /\ inPc = "alloc"
    /\ \/ /\ inPc' = "tiles"
          /\ UNCHANGED excInFlight
       \/ \E k \in InjectedKinds : RaiseInside(k)
    /\ UNCHANGED <<device, performOnDevice, passedOnDevice,
                   swPc, swBranch, numTiles, attemptNo,
                   doOnDevice, tileIdx, infLogits, infMask, infLatent,
                   tileLocals, excOut, attemptsLog, cacheClears, swResult,
                   swRaised>>
    /\ UNCHANGED notSW

\* lines 773-785: one tile of the loop.  Line 777 binds prediction_mask and
\* latent_space; a tile that raises does so before line 777 has finished
\* (lines 774-777) or after it (lines 778-785)
InternalTile ==
    /\ swPc = "calling" /\ inPc = "tiles" /\ tileIdx < numTiles
    /\ \/ /\ tileIdx' = tileIdx + 1
          /\ tileLocals' = TRUE
          /\ UNCHANGED <<excInFlight, inPc>>
       \/ /\ \E k \in InjectedKinds : RaiseInside(k)
          /\ \E after777 \in BOOLEAN : tileLocals' = (tileLocals \/ after777)
          /\ UNCHANGED tileIdx
    /\ UNCHANGED <<device, performOnDevice, passedOnDevice,
                   swPc, swBranch, numTiles, attemptNo,
                   doOnDevice, infLogits, infMask, infLatent, excOut,
                   attemptsLog, cacheClears, swResult, swRaised>>
    /\ UNCHANGED notSW

\* lines 788-790: the three divisions by n_predictions; whether a quotient is
\* infinite depends on the accumulated half-precision values
InternalNormalize ==
    /\ swPc = "calling" /\ inPc = "tiles" /\ tileIdx = numTiles
    /\ infLogits' \in BOOLEAN
    /\ infMask' \in BOOLEAN
    /\ infLatent' \in BOOLEAN
    /\ inPc' = "check"
    /\ UNCHANGED <<device, performOnDevice, passedOnDevice,
                   swPc, swBranch, numTiles, attemptNo,
                   doOnDevice, tileIdx, excInFlight, tileLocals, excOut,
                   attemptsLog, cacheClears, swResult, swRaised>>
    /\ UNCHANGED notSW

\* lines 792-795 and 801: the inf check, then the return
InternalInfCheck ==
    /\ swPc = "calling" /\ inPc = "check"
    /\ IF InfCheckFires(infLogits, infMask, infLatent)
       THEN /\ RaiseInside("InfCheck")
            /\ UNCHANGED attemptsLog
       ELSE /\ inPc' = "returned"
            /\ attemptsLog' = Append(attemptsLog,
                   [onDevice |-> doOnDevice, fail |-> "none",
                    infLogits |-> infLogits, infMask |-> infMask,
                    infLatent |-> infLatent, clears |-> cacheClears,
                    raised |-> "none"])
            /\ UNCHANGED excInFlight
    /\ UNCHANGED <<device, performOnDevice, passedOnDevice,
                   swPc, swBranch, numTiles, attemptNo,
                   doOnDevice, tileIdx, infLogits, infMask, infLatent,
                   tileLocals, excOut, cacheClears, swResult, swRaised>>
    /\ UNCHANGED notSW

\* line 797: the del statement names prediction_mask and latent_space, which
\* line 742 does not initialise; del of an unbound local raises
\* UnboundLocalError
HandlerDelFails(bound) == ~bound

\* lines 796-800: del the tensors, clear both caches, re-raise.  When the del
\* statement fails its UnboundLocalError leaves the handler instead and lines
\* 798-800 do not run
InternalExcept ==
    /\ swPc = "calling" /\ inPc = "except"
    /\ cacheClears' =
          IF HandlerDelFails(tileLocals) THEN cacheClears ELSE cacheClears + 2
    /\ excOut' =
          IF HandlerDelFails(tileLocals) THEN "UnboundLocalError" ELSE excInFlight
    /\ inPc' = "raised"
    /\ attemptsLog' = Append(attemptsLog,
           [onDevice |-> doOnDevice, fail |-> excInFlight,
            infLogits |-> infLogits, infMask |-> infMask,
            infLatent |-> infLatent, clears |-> cacheClears',
            raised |-> excOut'])
    /\ UNCHANGED <<device, performOnDevice, passedOnDevice,
                   swPc, swBranch, numTiles, attemptNo,
                   doOnDevice, tileIdx, infLogits, infMask, infLatent,
                   excInFlight, tileLocals, swResult, swRaised>>
    /\ UNCHANGED notSW

\* lines 837-841: the fallback, taken in the try branch for a caught exception
\* of the first call
OuterFallback ==
    /\ swPc = "calling" /\ inPc = "raised"
    /\ swBranch = "try" /\ attemptNo = 1
    /\ CaughtByFallback(excOut)
    /\ EnterInternal(FALSE)
    /\ UNCHANGED <<device, performOnDevice, passedOnDevice,
                   swPc, swBranch, numTiles,
                   attemptsLog, swResult, swRaised>>
    /\ UNCHANGED notSW

\* an exception of the internal execution that nothing catches leaves the call
OuterPropagate ==
    /\ swPc = "calling" /\ inPc = "raised"
    /\ ~(swBranch = "try" /\ attemptNo = 1 /\ CaughtByFallback(excOut))
    /\ swPc' = "raised"
    /\ swRaised' = excOut
    /\ inPc' = "none"
    /\ UNCHANGED <<device, performOnDevice, passedOnDevice,
                   swBranch, numTiles, attemptNo,
                   doOnDevice, tileIdx, infLogits, infMask, infLatent,
                   excInFlight, tileLocals, excOut, attemptsLog, cacheClears,
                   swResult>>
    /\ UNCHANGED notSW

\* lines 846-851: clear the cache, revert the padding, return the three tensors
OuterReturn ==
    /\ swPc = "calling" /\ inPc = "returned"
    /\ swPc' = "done"
    /\ swResult' = <<[infLogits |-> infLogits, infMask |-> infMask,
                      infLatent |-> infLatent]>>
    /\ inPc' = "none"
    /\ UNCHANGED <<device, performOnDevice, passedOnDevice,
                   swBranch, numTiles, attemptNo,
                   doOnDevice, tileIdx, infLogits, infMask, infLatent,
                   excInFlight, tileLocals, excOut, attemptsLog, cacheClears,
                   swRaised>>
    /\ UNCHANGED notSW

SWNext ==
    \/ SWStart
    \/ InternalAlloc
    \/ InternalTile
    \/ InternalNormalize
    \/ InternalInfCheck
    \/ InternalExcept
    \/ OuterFallback
    \/ OuterPropagate
    \/ OuterReturn

(***************************************************************************)
(* Data-iterator group: predict_from_data_iterator and its export pool     *)
(***************************************************************************)

\* allowed_num_queued=2 of lines 386 and 389
AllowedNumQueued == 2

Range(seq) == {seq[i] : i \in 1..Len(seq)}

\* properties['available_channel']: the channels present, each once, in the
\* order the preprocessing lists them
AvailSeqs(n) ==
    {q \in UNION {[1..k -> 0..(n - 1)] : k \in 1..n} :
        \A i, j \in 1..Len(q) : i # j => q[i] # q[j]}

\* the output path of an export job, relative to ofile (the os.path.join
\* arguments of lines 399-487); a and b are the numbers formatted into the name
PathOf(kind, t, s) ==
    CASE kind = "translate_tgt" ->
           [dir |-> "multi2one_inference", name |-> "translate_tgt", a |-> t, b |-> -1]
      [] kind = "segment" ->
           [dir |-> "multi2one_inference", name |-> "segment", a |-> -1, b |-> -1]
      [] kind = "enhanced_map" ->
           [dir |-> "explainability_visualization/task-specific_enhanced_map",
            name |-> "task-specific_enhanced_map_tgt", a |-> t, b |-> -1]
      [] kind = "norm_src" ->
           [dir |-> "normalized_source_images", name |-> "norm_src", a |-> s, b |-> -1]
      [] kind = "translate_src" ->
           [dir |-> "one2one_inference", name |-> "translate_src_to_tgt", a |-> s, b |-> t]
      [] kind = "segment_src" ->
           [dir |-> "one2one_inference", name |-> "segment_src", a |-> s, b |-> -1]
      [] kind = "latent_space" ->
           [dir |-> "latent_space", name |-> "latent_space_src", a |-> s, b |-> -1]
      [] kind = "imaging_differentiation_map" ->
           [dir |-> "explainability_visualization/imaging_differentiation_map",
            name |-> "imaging_differentiation_map_tgt", a |-> t, b |-> -1]
      [] OTHER ->
           [dir |-> "", name |-> "", a |-> -1, b |-> -1]

\* one starmap_async submission; "convert" jobs return in memory
Job(kind, t, s) ==
    [kind |-> kind, tgt |-> t, src |-> s, toDisk |-> kind # "convert",
     path |-> PathOf(kind, t, s)]

\* lines 400-421: the three submissions of a target
TargetJobs(t) ==
    <<Job("translate_tgt", t, -1), Job("segment", t, -1), Job("enhanced_map", t, -1)>>

\* MapSubmitted for every target, available or not
MapSubmittedAnyTarget(t, isLast, av, none) == ~none /\ isLast

\* lines 438, 477 and 482: the map of target t is submitted at the last
\* source of a case with an ofile, when t is one of the available channels
MapSubmitted(t, isLast, av, none) == ~none /\ isLast /\ t \in Range(av)

\* lines 438-506: the submissions of one source of a target
SourceJobs(t, s, isLast, av, none) ==
    IF none
    THEN <<Job("convert", t, s)>>
    ELSE (IF t = 0 THEN <<Job("norm_src", t, s)>> ELSE <<>>)
         \o <<Job("translate_src", t, s), Job("segment_src", t, s),
              Job("latent_space", t, s)>>
         \o (IF MapSubmitted(t, isLast, av, none)
             THEN <<Job("imaging_differentiation_map", t, s)>> ELSE <<>>)

\* line 423: md = torch.zeros_like(data[0:1])
NoMap == [terms |-> <<>>, div |-> 0]

\* lines 429-434: md += |linearMatch(prediction of source s, target) - target|
\* when the target is one of the available channels
MapAdd(m, t, s, av) ==
    IF t \in Range(av) THEN [m EXCEPT !.terms = Append(@, s)] ELSE m

\* line 480: md /= len(properties['available_channel'])
MapDivide(m, av) == [m EXCEPT !.div = Len(av)]

\* check_workers_alive_and_busy: more results pending than allowed per worker
WorkersBusy(pending, workers) == pending > AllowedNumQueued * workers

ItInit ==
    /\ itPc = "start"
    /\ numChannel \in 1..MaxChannels
    /\ exportWorkers = ExportWorkers
    /\ nCases \in 0..MaxCases
    /\ caseIdx = 0
    /\ ofileNone = FALSE
    /\ avail = <<>>
    /\ tgtSeq = 0
    /\ srcIdx = 0
    /\ rCount = 0
    /\ rCase = <<>>
    /\ steps = <<>>
    /\ nReady = 0
    /\ poolOpen = FALSE
    /\ ret = <<>>
    /\ itRaised = "none"
    /\ endClears = {}
    /\ deviceCleared = FALSE
    /\ md = NoMap
    /\ mdSent = <<>>

ItIdle ==
    /\ itPc = "start"
    /\ numChannel = 1
    /\ exportWorkers = 1
    /\ nCases = 0
    /\ caseIdx = 0
    /\ ofileNone = FALSE
    /\ avail = <<>>
    /\ tgtSeq = 0
    /\ srcIdx = 0
    /\ rCount = 0
    /\ rCase = <<>>
    /\ steps = <<>>
    /\ nReady = 0
    /\ poolOpen = FALSE
    /\ ret = <<>>
    /\ itRaised = "none"
    /\ endClears = {}
    /\ deviceCleared = FALSE
    /\ md = NoMap
    /\ mdSent = <<>>

\* an exception leaves the function; leaving the with block terminates the pool
ItRaise(exc) ==
    /\ itPc' = "raised"
    /\ itRaised' = exc
    /\ poolOpen' = FALSE

\* lines 364-366: the pool is created, r = []
OpenPool ==
    /\ itPc = "start"
    /\ itPc' = "fetch"
    /\ poolOpen' = TRUE
    /\ UNCHANGED <<numChannel, exportWorkers, nCases, caseIdx, ofileNone, avail,
                   tgtSeq, srcIdx, rCount, rCase, steps, nReady,
                   ret, itRaised, endClears,
                   deviceCleared, md, mdSent>>
    /\ UNCHANGED notIt

\* lines 367-382: the iterator yields the next record
FetchCase ==
    /\ itPc = "fetch" /\ caseIdx < nCases
    /\ caseIdx' = caseIdx + 1
    /\ ofileNone' \in BOOLEAN
    /\ avail' \in AvailSeqs(numChannel)
    /\ rCase' = <<>>
    /\ steps' = <<>>
    /\ mdSent' = <<>>
    /\ itPc' = "check"
    /\ UNCHANGED <<numChannel, exportWorkers, nCases, tgtSeq, srcIdx, rCount,
                   nReady, poolOpen, ret, itRaised, endClears,
                   deviceCleared, md>>
    /\ UNCHANGED notIt

\* line 367: the iterator is exhausted, the loop ends
IteratorExhausted ==
    /\ itPc = "fetch" /\ caseIdx = nCases
    /\ itPc' = "collect"
    /\ UNCHANGED <<numChannel, exportWorkers, nCases, caseIdx, ofileNone, avail,
                   tgtSeq, srcIdx, rCount, rCase, steps, nReady,
                   poolOpen, ret, itRaised, endClears,
                   deviceCleared, md, mdSent>>
    /\ UNCHANGED notIt

\* BackpressureCheck without the wait: a busy pool does not hold the case back
BackpressureCheckNoWait ==
    /\ itPc = "check"
    /\ \E alive \in BOOLEAN :
       IF ~alive
       THEN /\ ItRaise("RuntimeError")
            /\ UNCHANGED tgtSeq
       ELSE /\ itPc' = "target"
            /\ tgtSeq' = 0
            /\ UNCHANGED <<itRaised, poolOpen>>
    /\ UNCHANGED <<numChannel, exportWorkers, nCases, caseIdx, ofileNone, avail,
                   srcIdx, rCount, rCase, steps, nReady, ret, endClears,
                   deviceCleared, md, mdSent>>
    /\ UNCHANGED notIt

\* lines 386-389: one evaluation of check_workers_alive_and_busy, which raises
\* when it finds a process of worker_list dead
BackpressureCheck ==
    /\ itPc = "check"
    /\ \E alive \in BOOLEAN :
       IF ~alive
       THEN /\ ItRaise("RuntimeError")
            /\ UNCHANGED tgtSeq
       ELSE IF WorkersBusy(rCount - nReady, exportWorkers)
       THEN /\ itPc' = "sleep"
            /\ UNCHANGED <<tgtSeq, itRaised, poolOpen>>
       ELSE /\ itPc' = "target"
            /\ tgtSeq' = 0
            /\ UNCHANGED <<itRaised, poolOpen>>
    /\ UNCHANGED <<numChannel, exportWorkers, nCases, caseIdx, ofileNone, avail,
                   srcIdx, rCount, rCase, steps, nReady, ret, endClears,
                   deviceCleared, md, mdSent>>
    /\ UNCHANGED notIt

\* line 388: sleep(0.1), then the check again
BackpressureSleep ==
    /\ itPc = "sleep"
    /\ itPc' = "check"
    /\ UNCHANGED <<numChannel, exportWorkers, nCases, caseIdx, ofileNone, avail,
                   tgtSeq, srcIdx, rCount, rCase, steps, nReady,
                   poolOpen, ret, itRaised, endClears,
                   deviceCleared, md, mdSent>>
    /\ UNCHANGED notIt

\* lines 391-423: the fused predictions of a target and their submissions;
\* os.path.join(None, ...) of line 399 raises TypeError
TargetStep ==
    /\ itPc = "target"
    /\ steps' = Append(steps, <<tgtSeq, -1>>)
    /\ IF ofileNone
       THEN /\ ItRaise("TypeError")
            /\ UNCHANGED <<rCount, rCase, srcIdx, md>>
       ELSE /\ rCase' = rCase \o TargetJobs(tgtSeq)
            /\ rCount' = rCount + Len(TargetJobs(tgtSeq))
            /\ srcIdx' = 1
            /\ md' = NoMap
            /\ itPc' = "source"
            /\ UNCHANGED <<itRaised, poolOpen>>
    /\ deviceCleared' = TRUE
    /\ UNCHANGED <<numChannel, exportWorkers, nCases, caseIdx, ofileNone, avail,
                   tgtSeq, nReady, ret, endClears, mdSent>>
    /\ UNCHANGED notIt

\* CurrentSource taking the loop index for the channel
CurrentSourceByIndex == srcIdx - 1

\* the source the loop of line 424 is at
CurrentSource == avail[srcIdx]

\* the target the loop of line 391 takes after tgt
NextTarget(tgt) == tgt + 1

\* lines 424-510: one source of the current target, then the loop heads
SourceStep ==
    /\ itPc = "source"
    /\ LET s == CurrentSource
           jobs == SourceJobs(tgtSeq, s, srcIdx = Len(avail), avail, ofileNone)
           isLast == srcIdx = Len(avail)
           sum == MapAdd(md, tgtSeq, s, avail)
           mean == IF isLast /\ ~ofileNone THEN MapDivide(sum, avail) ELSE sum
       IN /\ steps' = Append(steps, <<tgtSeq, s>>)
          /\ rCase' = rCase \o jobs
          /\ rCount' = rCount + Len(jobs)
          /\ md' = mean
          /\ mdSent' = IF MapSubmitted(tgtSeq, isLast, avail, ofileNone)
                        THEN Append(mdSent, [tgt |-> tgtSeq, map |-> mean])
                        ELSE mdSent
    /\ IF srcIdx < Len(avail)
       THEN /\ srcIdx' = srcIdx + 1
            /\ UNCHANGED <<tgtSeq, itPc>>
       ELSE IF NextTarget(tgtSeq) \in 0..(numChannel - 1)
       THEN /\ tgtSeq' = NextTarget(tgtSeq)
            /\ itPc' = "target"
            /\ UNCHANGED srcIdx
       ELSE /\ itPc' = "fetch"
            /\ UNCHANGED <<tgtSeq, srcIdx>>
    /\ deviceCleared' = TRUE
    /\ UNCHANGED <<numChannel, exportWorkers, nCases, caseIdx, ofileNone, avail,
                   nReady, poolOpen, ret, itRaised, endClears>>
    /\ UNCHANGED notIt

\* an export worker finishes a job: one more result of r is ready
PoolCompletes ==
    /\ poolOpen /\ nReady < rCount
    /\ nReady' = nReady + 1
    /\ UNCHANGED <<itPc, numChannel, exportWorkers, nCases, caseIdx, ofileNone,
                   avail, tgtSeq, srcIdx, rCount, rCase, steps,
                   poolOpen, ret, itRaised, endClears,
                   deviceCleared, md, mdSent>>
    /\ UNCHANGED notIt

\* line 511: the get() of the next entry of r returns once its result is ready
Retrieve ==
    /\ itPc = "collect"
    /\ Len(ret) < rCount
    /\ nReady > Len(ret)
    /\ ret' = Append(ret, Len(ret) + 1)
    /\ UNCHANGED <<itPc, numChannel, exportWorkers, nCases, caseIdx, ofileNone,
                   avail, tgtSeq, srcIdx, rCount, rCase, steps, nReady, poolOpen, itRaised, endClears,
                   deviceCleared, md, mdSent>>
    /\ UNCHANGED notIt

\* CollectDone stopping at the results that are ready
CollectDoneReadyOnly == Len(ret) = nReady

\* line 511 is done for every entry of r
CollectDone == Len(ret) = rCount

\* the with block of line 364 ends
LeavePool ==
    /\ itPc = "collect"
    /\ CollectDone
    /\ poolOpen' = FALSE
    /\ itPc' = "report"
    /\ UNCHANGED <<numChannel, exportWorkers, nCases, caseIdx, ofileNone, avail,
                   tgtSeq, srcIdx, rCount, rCase, steps, nReady,
                   ret, itRaised, endClears,
                   deviceCleared, md, mdSent>>
    /\ UNCHANGED notIt

\* lines 513-546: the contribution report next to the last ofile, the cache
\* clears, the return; with no record fetched ofile is unbound at line 540
ReportAndReturn ==
    /\ itPc = "report"
    /\ IF caseIdx = 0
       THEN /\ itPc' = "raised"
            /\ itRaised' = "UnboundLocalError"
            /\ UNCHANGED <<endClears, deviceCleared, md, mdSent>>
       ELSE /\ itPc' = "returned"
            /\ endClears' = {"gaussian", "device"}
            /\ deviceCleared' = TRUE
            /\ UNCHANGED itRaised
    /\ UNCHANGED <<numChannel, exportWorkers, nCases, caseIdx, ofileNone, avail,
                   tgtSeq, srcIdx, rCount, rCase, steps, nReady,
                   poolOpen, ret, md, mdSent>>
    /\ UNCHANGED notIt

ItNext ==
    \/ OpenPool
    \/ FetchCase
    \/ IteratorExhausted
    \/ BackpressureCheck
    \/ BackpressureSleep
    \/ TargetStep
    \/ SourceStep
    \/ PoolCompletes
    \/ Retrieve
    \/ LeavePool
    \/ ReportAndReturn

(***************************************************************************)
(* _manage_input_and_output_lists                                          *)
(***************************************************************************)

\* the list <<1, ..., n>>
IndexSeq(n) == [i \in 1..n |-> i]

\* Shard cut into contiguous blocks of n cases instead of strides
ShardContiguous(seq, p, n) ==
    LET lo == p * n
        cnt == IF Len(seq) <= lo THEN 0
               ELSE IF Len(seq) - lo < n THEN Len(seq) - lo ELSE n
    IN [k \in 1..cnt |-> seq[lo + k]]

\* seq[p::n] of line 174 (p counts from 0)
Shard(seq, p, n) ==
    LET cnt == IF Len(seq) <= p THEN 0 ELSE ((Len(seq) - p - 1) \div n) + 1
    IN [k \in 1..cnt |-> seq[p + (k - 1) * n + 1]]

\* AlreadyPredicted without the companion archive
AlreadyPredictedLabelOnly(out, sp, labels, npzs) == out \in labels

\* lines 190-193: tmp[i] for the output path out
AlreadyPredicted(out, sp, labels, npzs) ==
    IF sp THEN (out \in labels /\ out \in npzs) ELSE out \in labels

\* line 194: not_existing_indices, counted from 1
NotExistingIndices(outs, sp, labels, npzs) ==
    SelectSeq(IndexSeq(Len(outs)),
              LAMBDA i : ~AlreadyPredicted(outs[i], sp, labels, npzs))

\* [seq[i] for i in idx] of lines 196-198
TakeIndices(seq, idx) == [k \in 1..Len(idx) |-> seq[idx[k]]]

\* lines 170-201.  A case is its id; the path join(folder, caseid) and the
\* entry of the output list written for a case are both named by the id of
\* that case; a previous-stage file is the id of its case, 0 stands for None
ManageLists(src, kind, outL, prev, ow, p, n, sp, labels, npzs) ==
    LET lol == Shard(src, p, n)
        outs == IF kind = "folder" THEN lol ELSE outL
        segs == [i \in 1..Len(lol) |-> IF prev THEN lol[i] ELSE 0]
        nei == NotExistingIndices(outs, sp, labels, npzs)
    IN IF ~ow /\ kind # "none"
       THEN IF \E k \in 1..Len(nei) : nei[k] > Len(lol)
            THEN [err |-> "IndexError", inputs |-> <<>>, outputs |-> <<>>,
                  outputsNone |-> FALSE, segs |-> <<>>]
            ELSE [err |-> "none",
                  inputs |-> TakeIndices(lol, nei),
                  outputs |-> TakeIndices(outs, nei),
                  outputsNone |-> FALSE,
                  segs |-> TakeIndices(segs, nei)]
       ELSE [err |-> "none", inputs |-> lol,
             outputs |-> IF kind = "none" THEN <<>> ELSE outs,
             outputsNone |-> (kind = "none"), segs |-> segs]

NoResult ==
    [err |-> "unset", inputs |-> <<>>, outputs |-> <<>>, outputsNone |-> FALSE,
     segs |-> <<>>]

\* the arguments of a call
ArgsInit(maxCases) ==
    /\ \E n \in 0..maxCases : srcList = IndexSeq(n)
    /\ outKind \in {"folder", "list", "none"}
    /\ outList = IF outKind = "list" THEN srcList ELSE <<>>
    /\ prevGiven \in BOOLEAN
    /\ overwrite \in BOOLEAN
    /\ saveProb \in BOOLEAN
    /\ numParts \in 1..MaxParts
    /\ partId \in 0..(numParts - 1)
    /\ labelFiles \in SUBSET Range(srcList)
    /\ npzFiles \in SUBSET Range(srcList)

LsInit ==
    /\ ArgsInit(MaxListCases)
    /\ lsPc = "call"
    /\ lsResult = NoResult

LsIdle ==
    /\ srcList = <<>>
    /\ outKind = "none"
    /\ outList = <<>>
    /\ prevGiven = FALSE
    /\ overwrite = TRUE
    /\ saveProb = FALSE
    /\ numParts = 1
    /\ partId = 0
    /\ labelFiles = {}
    /\ npzFiles = {}
    /\ lsPc = "idle"
    /\ lsResult = NoResult

argVars == <<srcList, outKind, outList, prevGiven, overwrite, saveProb, partId,
             numParts, labelFiles, npzFiles>>

\* one call of _manage_input_and_output_lists
CallManageLists ==
    /\ lsPc = "call"
    /\ lsResult' = ManageLists(srcList, outKind, outList, prevGiven, overwrite,
                               partId, numParts, saveProb, labelFiles, npzFiles)
    /\ lsPc' = "done"
    /\ UNCHANGED argVars
    /\ UNCHANGED notLs

LsNext ==
    \/ CallManageLists

(***************************************************************************)
(* predict_from_files                                                      *)
(***************************************************************************)

ArgsFile == "predict_from_raw_data_args.json"
DatasetFile == "dataset.json"
PlansFile == "plans.json"
ContributionFile == "task-specific_sequence_contribution.csv"

\* ContributionRows without the seg row
ContributionRowsNoSeg(n) == n

\* lines 242-248: one row per target channel, then the seg row
ContributionRows(n) == n + 1

\* CascadeAssertFails with the assertion left out
CascadeAssertNever(casc, prev) == FALSE

\* lines 254-255: the assertion of a cascaded configuration fails
CascadeAssertFails(casc, prev) == casc /\ ~prev

FlInit ==
    /\ ArgsInit(MaxFileCases)
    /\ lsPc = "idle"
    /\ lsResult = NoResult
    /\ flPc = "resolve"
    /\ cascaded \in BOOLEAN
    /\ tsfChannels \in 1..MaxChannels
    /\ outputFolder = "unset"
    /\ filesWritten = {}
    /\ tsRows = 0
    /\ caseListBuilt = FALSE
    /\ workList = <<>>
    /\ predictionsRun = 0
    /\ flRaised = "none"

FlIdle ==
    /\ flPc = "idle"
    /\ cascaded = FALSE
    /\ tsfChannels = 1
    /\ outputFolder = "unset"
    /\ filesWritten = {}
    /\ tsRows = 0
    /\ caseListBuilt = FALSE
    /\ workList = <<>>
    /\ predictionsRun = 0
    /\ flRaised = "none"

\* lines 217-222: output_folder; an empty list has no entry 0
FilesResolve ==
    /\ flPc = "resolve"
    /\ IF outKind = "list" /\ outList = <<>>
       THEN /\ flPc' = "raised"
            /\ flRaised' = "IndexError"
            /\ UNCHANGED outputFolder
       ELSE /\ outputFolder' = IF outKind = "none" THEN "none" ELSE "folder"
            /\ flPc' = IF outKind = "none" THEN "cascade" ELSE "args"
            /\ UNCHANGED flRaised
    /\ UNCHANGED <<cascaded, tsfChannels, filesWritten, tsRows, caseListBuilt,
                   workList, predictionsRun>>
    /\ UNCHANGED lsVars
    /\ UNCHANGED notFl

\* lines 227-234: the sanitized call arguments
FilesWriteArgs ==
    /\ flPc = "args"
    /\ filesWritten' = filesWritten \cup {ArgsFile}
    /\ flPc' = "descriptors"
    /\ UNCHANGED <<cascaded, tsfChannels, outputFolder, tsRows, caseListBuilt,
                   workList, predictionsRun, flRaised>>
    /\ UNCHANGED lsVars
    /\ UNCHANGED notFl

\* lines 237-238: dataset.json and plans.json
FilesWriteDescriptors ==
    /\ flPc = "descriptors"
    /\ filesWritten' = filesWritten \cup {DatasetFile, PlansFile}
    /\ flPc' = "contribution"
    /\ UNCHANGED <<cascaded, tsfChannels, outputFolder, tsRows, caseListBuilt,
                   workList, predictionsRun, flRaised>>
    /\ UNCHANGED lsVars
    /\ UNCHANGED notFl

\* lines 240-250: the task-specific contribution table
FilesWriteContribution ==
    /\ flPc = "contribution"
    /\ tsRows' = ContributionRows(tsfChannels)
    /\ filesWritten' = filesWritten \cup {ContributionFile}
    /\ flPc' = "cascade"
    /\ UNCHANGED <<cascaded, tsfChannels, outputFolder, caseListBuilt,
                   workList, predictionsRun, flRaised>>
    /\ UNCHANGED lsVars
    /\ UNCHANGED notFl

\* lines 254-258: a cascaded configuration needs the previous-stage folder
FilesCascadeCheck ==
    /\ flPc = "cascade"
    /\ IF CascadeAssertFails(cascaded, prevGiven)
       THEN /\ flPc' = "raised"
            /\ flRaised' = "AssertionError"
       ELSE /\ flPc' = "lists"
            /\ UNCHANGED flRaised
    /\ UNCHANGED <<cascaded, tsfChannels, outputFolder, filesWritten, tsRows,
                   caseListBuilt, workList, predictionsRun>>
    /\ UNCHANGED lsVars
    /\ UNCHANGED notFl

\* lines 261-267: the work list; an empty one ends the call
FilesManageLists ==
    /\ flPc = "lists"
    /\ LET res == ManageLists(srcList, outKind, outList, prevGiven, overwrite,
                              partId, numParts, saveProb, labelFiles, npzFiles)
       IN /\ lsResult' = res
          /\ caseListBuilt' = TRUE
          /\ IF res.err # "none"
             THEN /\ flPc' = "raised"
                  /\ flRaised' = res.err
                  /\ UNCHANGED workList
             ELSE /\ workList' = res.inputs
                  /\ flPc' = IF Len(res.inputs) = 0 THEN "returned" ELSE "delegate"
                  /\ UNCHANGED flRaised
    /\ UNCHANGED <<cascaded, tsfChannels, outputFolder, filesWritten, tsRows,
                   predictionsRun>>
    /\ UNCHANGED <<argVars, lsPc>>
    /\ UNCHANGED notFl

\* lines 269-274: the preprocessing iterator, then predict_from_data_iterator
FilesDelegate ==
    /\ flPc = "delegate"
    /\ flPc' = "predicting"
    /\ UNCHANGED <<cascaded, tsfChannels, outputFolder, filesWritten, tsRows,
                   caseListBuilt, workList, predictionsRun, flRaised>>
    /\ UNCHANGED lsVars
    /\ UNCHANGED notFl

\* line 274, predict_from_data_iterator on the next case of the work list: its
\* first image prediction (line 395), then line 399, which raises TypeError
\* when the case has no ofile
FilesPredictCase ==
    /\ flPc = "predicting"
    /\ predictionsRun < Len(workList)
    /\ predictionsRun' = predictionsRun + 1
    /\ IF lsResult.outputsNone
       THEN /\ flPc' = "raised"
            /\ flRaised' = "TypeError"
       ELSE UNCHANGED <<flPc, flRaised>>
    /\ UNCHANGED <<cascaded, tsfChannels, outputFolder, filesWritten, tsRows,
                   caseListBuilt, workList>>
    /\ UNCHANGED lsVars
    /\ UNCHANGED notFl

\* line 274: the delegated call returns
FilesReturn ==
    /\ flPc = "predicting"
    /\ predictionsRun = Len(workList)
    /\ flPc' = "returned"
    /\ UNCHANGED <<cascaded, tsfChannels, outputFolder, filesWritten, tsRows,
                   caseListBuilt, workList, predictionsRun, flRaised>>
    /\ UNCHANGED lsVars
    /\ UNCHANGED notFl

FlNext ==
    \/ FilesResolve
    \/ FilesWriteArgs
    \/ FilesWriteDescriptors
    \/ FilesWriteContribution
    \/ FilesCascadeCheck
    \/ FilesManageLists
    \/ FilesDelegate
    \/ FilesPredictCase
    \/ FilesReturn

(***************************************************************************)
(* Specifications                                                          *)
(***************************************************************************)
(* auto_detect_available_folds                                             *)
(***************************************************************************)

\* The names a training output folder holds: fold_<k>, fold_all, and a folder
\* that is no fold folder.  A name is its prefix and what follows it.
FoldNames ==
    {[prefix |-> "fold_", tail |-> "int", idx |-> k] : k \in 0..MaxFold}
    \cup {[prefix |-> "fold_", tail |-> "all", idx |-> 0]}
    \cup {[prefix |-> "crossval_results_folds_", tail |-> "int", idx |-> 0]}

\* line 156: subdirs(..., prefix='fold_')
HasFoldPrefix(name) == name.prefix = "fold_"

\* line 157: i != 'fold_all'
NotFoldAll(name) == ~(name.prefix = "fold_" /\ name.tail = "all")

\* ContainsCheckpoint without the look at the file
ContainsCheckpointAny(name, ckpts) == TRUE

\* line 158: isfile(join(model_training_output_dir, i, checkpoint_name))
ContainsCheckpoint(name, ckpts) == name \in ckpts

\* line 159: int(i.split('_')[-1])
FoldIndex(name) == name.idx

\* lines 156-161: the kept folders in the sorted order of subdirs, as indices
RECURSIVE SortedIndices(_)
SortedIndices(S) ==
    IF S = {} THEN <<>>
    ELSE LET m == CHOOSE x \in S : \A y \in S : x <= y
         IN <<m>> \o SortedIndices(S \ {m})

AutoDetectAvailableFolds(dirs, ckpts) ==
    LET kept == {d \in dirs : /\ HasFoldPrefix(d)
                              /\ NotFoldAll(d)
                              /\ ContainsCheckpoint(d, ckpts)}
    IN SortedIndices({FoldIndex(d) : d \in kept})

FdInit ==
    /\ fdDirs \in SUBSET FoldNames
    /\ fdCheckpoints \in SUBSET fdDirs
    /\ fdPc = "call"
    /\ fdResult = <<>>

FdIdle ==
    /\ fdDirs = {}
    /\ fdCheckpoints = {}
    /\ fdPc = "idle"
    /\ fdResult = <<>>

\* one call of auto_detect_available_folds
DetectFolds ==
    /\ fdPc = "call"
    /\ fdResult' = AutoDetectAvailableFolds(fdDirs, fdCheckpoints)
    /\ fdPc' = "done"
    /\ UNCHANGED <<fdDirs, fdCheckpoints>>
    /\ UNCHANGED notFd

FdNext ==
    \/ DetectFolds

(***************************************************************************)
(* Geometry of the sliding window: padding, tile offsets, cropping         *)
(***************************************************************************)

\* tile_step_size: fractions of (0, 1]
StepFractions ==
    {[num |-> 1, den |-> 4], [num |-> 1, den |-> 2], [num |-> 3, den |-> 4],
     [num |-> 1, den |-> 1]}

\* ceil(a / b) for a >= 0, b > 0
CeilDiv(a, b) == (a + b - 1) \div b

\* round(a / b) for a >= 0, b > 0, halves to the even neighbour
RoundHalfEven(a, b) ==
    LET q == a \div b
        r == a % b
    IN IF 2 * r < b THEN q
       ELSE IF 2 * r > b THEN q + 1
       ELSE IF q % 2 = 0 THEN q ELSE q + 1

\* NumSteps with the quotient rounded down
NumStepsFloor(extent, patch, frac) ==
    (((extent - patch) * frac.den) \div (patch * frac.num)) + 1

\* number of steps of an axis:
\* ceil((image_extent - patch_extent) / (patch_extent * step_fraction)) + 1
NumSteps(extent, patch, frac) ==
    CeilDiv((extent - patch) * frac.den, patch * frac.num) + 1

\* the offsets of an axis: evenly spaced from 0 to extent - patch, rounded
AxisSteps(extent, patch, frac) ==
    LET n == NumSteps(extent, patch, frac)
    IN IF n = 1 THEN <<0>>
       ELSE [i \in 1..n |-> RoundHalfEven((extent - patch) * (i - 1), n - 1)]

\* compute_steps_for_sliding_window: one offset list per axis
ComputeSteps(shape, patch, frac) ==
    [d \in 1..Len(shape) |-> AxisSteps(shape[d], patch[d], frac)]

\* pad_nd_image of lines 826-828 on one axis: the new extent is the larger of
\* the extent and the patch extent, the difference is split into a lower half
\* and an upper half that takes the odd voxel
PadBelow(extent, patch) ==
    (IF patch > extent THEN patch - extent ELSE 0) \div 2

PadAbove(extent, patch) ==
    LET diff == IF patch > extent THEN patch - extent ELSE 0
    IN (diff \div 2) + (diff % 2)

PaddedExtent(extent, patch) ==
    extent + PadBelow(extent, patch) + PadAbove(extent, patch)

\* the slicer pad_nd_image returns for the axis: slice(below, new - above)
RevertSlicer(extent, patch) ==
    <<PadBelow(extent, patch),
      PaddedExtent(extent, patch) - PadAbove(extent, patch)>>

\* RevertPadding that leaves the padded tensor as it is
RevertPaddingNone(extent, sl) == extent

\* lines 848-850: extent of tensor[start:stop] on an axis of the given extent
RevertPadding(extent, sl) ==
    LET stop == IF sl[2] < extent THEN sl[2] ELSE extent
        start == IF sl[1] < extent THEN sl[1] ELSE extent
    IN IF stop > start THEN stop - start ELSE 0

Shapes(n, max) == [1..n -> 1..max]

GmInit ==
    /\ gmShape \in Shapes(GeomAxes, MaxExtent)
    /\ gmPatch \in Shapes(GeomAxes, MaxPatch)
    /\ gmFrac \in StepFractions
    /\ gmPc = "pad"
    /\ gmPadded = <<>>
    /\ gmSlicer = <<>>
    /\ gmSteps = <<>>
    /\ gmOut = <<>>

GmIdle ==
    /\ gmShape = <<>>
    /\ gmPatch = <<>>
    /\ gmFrac = [num |-> 1, den |-> 2]
    /\ gmPc = "idle"
    /\ gmPadded = <<>>
    /\ gmSlicer = <<>>
    /\ gmSteps = <<>>
    /\ gmOut = <<>>

\* lines 826-828: pad up to the patch size, keep the slicer that reverts it
GeomPad ==
    /\ gmPc = "pad"
    /\ gmPadded' = [d \in 1..Len(gmShape) |-> PaddedExtent(gmShape[d], gmPatch[d])]
    /\ gmSlicer' = [d \in 1..Len(gmShape) |-> RevertSlicer(gmShape[d], gmPatch[d])]
    /\ gmPc' = "slicers"
    /\ UNCHANGED <<gmShape, gmPatch, gmFrac, gmSteps, gmOut>>
    /\ UNCHANGED notGm

\* line 830: the slicers over the padded shape
GeomSlicers ==
    /\ gmPc = "slicers"
    /\ gmSteps' = ComputeSteps(gmPadded, gmPatch, gmFrac)
    /\ gmPc' = "execute"
    /\ UNCHANGED <<gmShape, gmPatch, gmFrac, gmPadded, gmSlicer, gmOut>>
    /\ UNCHANGED notGm

\* lines 832-844: the internal execution returns three accumulators
\* allocated with the spatial shape of the padded data (lines 756-764)
GeomExecute ==
    /\ gmPc = "execute"
    /\ gmOut' = <<[logits |-> gmPadded, mask |-> gmPadded, latent |-> gmPadded]>>
    /\ gmPc' = "crop"
    /\ UNCHANGED <<gmShape, gmPatch, gmFrac, gmPadded, gmSlicer, gmSteps>>
    /\ UNCHANGED notGm

\* lines 846-851: revert the padding of the three tensors and return them
GeomCrop ==
    /\ gmPc = "crop"
    /\ LET crop(shape) ==
              [d \in 1..Len(shape) |-> RevertPadding(shape[d], gmSlicer[d])]
       IN gmOut' = <<[logits |-> crop(gmOut[1].logits),
                      mask |-> crop(gmOut[1].mask),
                      latent |-> crop(gmOut[1].latent)]>>
    /\ gmPc' = "done"
    /\ UNCHANGED <<gmShape, gmPatch, gmFrac, gmPadded, gmSlicer, gmSteps>>
    /\ UNCHANGED notGm

GmNext ==
    \/ GeomPad
    \/ GeomSlicers
    \/ GeomExecute
    \/ GeomCrop

(***************************************************************************)
(* predict_logits_from_preprocessed_data and predict_single_npy_array       *)
(***************************************************************************)

\* line 597: the cap of the thread count
ThreadCap == 8

\* line 597: 8 if 8 < n_threads else n_threads
CappedThreads(n) == IF ThreadCap < n THEN ThreadCap ELSE n

\* line 588: the parameters of predict_logits_from_preprocessed_data that
\* have no default
RequiredParameters == {"data", "target_code"}

\* line 565: the arguments predict_single_npy_array passes
SingleArrayArguments == {"data"}

\* line 425: the arguments predict_from_data_iterator passes
IteratorArguments == {"data", "target_code"}

\* a call that leaves a parameter without default unbound raises TypeError
\* before the body of the function runs
MissingArguments(passed) == RequiredParameters \ passed

\* what the sliding-window prediction of a fold can raise (lines 615, 620)
FoldFailures == {"RuntimeError", "UnboundLocalError", "Other"}

\* LoadedParameters keeping the first parameter set
LoadedParametersFirst(i) == 1

\* lines 606-609: load_state_dict of the i-th entry of list_of_parameters
LoadedParameters(i) == i

\* lines 599-601: the three outputs before the first pass
NoSums == [prediction |-> <<>>, mask |-> <<>>, latent |-> <<>>]

\* lines 614-623: the outputs of a pass taken as, or added to, the sums
AddPass(sums, pass) ==
    [prediction |-> Append(sums.prediction, pass),
     mask |-> Append(sums.mask, pass),
     latent |-> Append(sums.latent, pass)]

PlInit ==
    /\ ambientThreads \in 1..MaxThreads
    /\ torchThreads = ambientThreads
    /\ savedThreads = 0
    /\ numFolds \in 1..MaxEnsemble
    /\ foldIdx = 0
    /\ plPc = "idle"
    /\ plRaised = "none"
    /\ npOutputGiven \in BOOLEAN
    /\ npSaveProb \in BOOLEAN
    /\ npPc = "idle"
    /\ npResult = "none"
    /\ npRaised = "none"
    /\ plLoaded = 0
    /\ plPasses = <<>>
    /\ plSums = NoSums
    /\ plDivisor = 0

PlIdle ==
    /\ ambientThreads = 1
    /\ torchThreads = 1
    /\ savedThreads = 0
    /\ numFolds = 1
    /\ foldIdx = 0
    /\ plPc = "none"
    /\ plRaised = "none"
    /\ npOutputGiven = FALSE
    /\ npSaveProb = FALSE
    /\ npPc = "none"
    /\ npResult = "none"
    /\ npRaised = "none"
    /\ plLoaded = 0
    /\ plPasses = <<>>
    /\ plSums = NoSums
    /\ plDivisor = 0

\* lines 596-601 for the call of line 425: read the thread count, cap it
PlEnter ==
    /\ plPc = "idle" /\ npPc = "idle"
    /\ MissingArguments(IteratorArguments) = {}
    /\ savedThreads' = torchThreads
    /\ torchThreads' = CappedThreads(torchThreads)
    /\ foldIdx' = 0
    /\ plPc' = "folds"
    /\ UNCHANGED <<ambientThreads, numFolds, plRaised, npOutputGiven, npSaveProb,
                   npPc, npResult, npRaised, plLoaded, plPasses, plSums,
                   plDivisor>>
    /\ UNCHANGED notPl

\* lines 603-623: one fold; an exception of its sliding-window prediction
\* leaves the function at once
PlFold ==
    /\ plPc = "folds" /\ foldIdx < numFolds
    /\ plLoaded' = LoadedParameters(foldIdx + 1)
    /\ \/ /\ foldIdx' = foldIdx + 1
          /\ plPasses' = Append(plPasses, plLoaded')
          /\ plSums' = AddPass(plSums, Len(plPasses'))
          /\ UNCHANGED <<plPc, plRaised>>
       \/ /\ \E exc \in FoldFailures : plRaised' = exc
          /\ plPc' = "raised"
          /\ UNCHANGED <<foldIdx, plPasses, plSums>>
    /\ UNCHANGED <<ambientThreads, torchThreads, savedThreads, numFolds,
                   npOutputGiven, npSaveProb, npPc, npResult, npRaised,
                   plDivisor>>
    /\ UNCHANGED notPl

\* lines 625-635: average, restore the thread count, return
PlReturn ==
    /\ plPc = "folds" /\ foldIdx = numFolds
    /\ torchThreads' = savedThreads
    /\ plPc' = "returned"
    /\ plDivisor' = IF numFolds > 1 THEN numFolds ELSE 0
    /\ UNCHANGED <<ambientThreads, savedThreads, numFolds, foldIdx, plRaised,
                   npOutputGiven, npSaveProb, npPc, npResult, npRaised,
                   plLoaded, plPasses, plSums>>
    /\ UNCHANGED notPl

\* lines 555-586: preprocess, then the call of line 565, then export or
\* conversion of what it returned
PredictSingleNpyArray ==
    /\ npPc = "idle" /\ plPc = "idle"
    /\ IF MissingArguments(SingleArrayArguments) # {}
       THEN /\ npRaised' = "TypeError"
            /\ npPc' = "raised"
            /\ UNCHANGED npResult
       ELSE /\ npResult' = IF npOutputGiven THEN "exported"
                           ELSE IF npSaveProb THEN "label map, probabilities"
                           ELSE "label map"
            /\ npPc' = "returned"
            /\ UNCHANGED npRaised
    /\ UNCHANGED <<ambientThreads, torchThreads, savedThreads, numFolds, foldIdx,
                   plPc, plRaised, npOutputGiven, npSaveProb, plLoaded,
                   plPasses, plSums, plDivisor>>
    /\ UNCHANGED notPl

PlNext ==
    \/ PlEnter
    \/ PlFold
    \/ PlReturn
    \/ PredictSingleNpyArray

(***************************************************************************)
(* End-of-run contribution report (lines 516-540)                          *)
(***************************************************************************)

\* PSNR values an observation can take
PsnrValues == {20, 30}

\* Exact fractions n/d with d > 0 stand for the floating-point numbers of the
\* report
Frac(n, d) == [n |-> n, d |-> d]
Zero == Frac(0, 1)
FracAdd(x, y) == Frac(x.n * y.d + y.n * x.d, x.d * y.d)
FracSub(x, y) == Frac(x.n * y.d - y.n * x.d, x.d * y.d)
FracDivInt(x, k) == Frac(x.n, x.d * k)
FracEq(x, y) == x.n * y.d = y.n * x.d

RECURSIVE SeqSum(_)
SeqSum(q) == IF q = <<>> THEN 0 ELSE q[1] + SeqSum(Tail(q))

\* np.nanmean of a non-empty list of finite values
Mean(q) == Frac(SeqSum(q), Len(q))

\* lines 521-524: all_psnr, the lists of the table one after the other
RECURSIVE Concat(_, _, _)
Concat(tab, n, k) ==
    IF k = n * n THEN <<>>
    ELSE tab[k \div n][k % n] \o Concat(tab, n, k + 1)

AllPsnr(tab, n) == Concat(tab, n, 0)

\* line 529 without its factor 1 / (np.nanstd(all_psnr) + eps), which is the
\* same positive number in every cell: the scores are kept in units of it
Score(obs, all) == FracSub(Mean(obs), Mean(all))

\* lines 519-529: A starts at 0, a cell without observation is skipped
ScoreMatrix(tab, n) ==
    [i \in 0..(n - 1) |->
        [j \in 0..(n - 1) |->
            IF Len(tab[i][j]) = 0 THEN Zero
            ELSE Score(tab[i][j], AllPsnr(tab, n))]]

\* ColumnTerm reading the row of the channel
ColumnTermOfRow(A, i, j) == A[i][j]

\* line 534: the term metric_ct gains at j
RowTerm(A, i, j) == A[i][j]

\* line 535: the term metric_cd loses at j
ColumnTerm(A, i, j) == A[j][i]

\* lines 531-535: the loop over j, from j on, with the two accumulators
RECURSIVE Accumulate(_, _, _, _, _, _)
Accumulate(A, n, i, j, ct, cd) ==
    IF j = n THEN <<ct, cd>>
    ELSE Accumulate(A, n, i, j + 1,
                    FracAdd(ct, RowTerm(A, i, j)),
                    FracSub(cd, ColumnTerm(A, i, j)))

\* lines 531-538: the row of channel i
ReportRowOf(A, n, i) ==
    LET acc == Accumulate(A, n, i, 0, Zero, Zero)
    IN [channel |-> i,
        metric_ct |-> FracDivInt(acc[1], n),
        metric_cd |-> FracDivInt(acc[2], n)]

EmptyTable(n) == [i \in 0..(n - 1) |-> [j \in 0..(n - 1) |-> <<>>]]

RpInit ==
    /\ rpN \in 1..MaxReportChannels
    /\ rpTable = EmptyTable(rpN)
    /\ rpPc = "sweep"
    /\ rpA = <<>>
    /\ rpRows = <<>>

RpIdle ==
    /\ rpN = 1
    /\ rpTable = EmptyTable(1)
    /\ rpPc = "idle"
    /\ rpA = <<>>
    /\ rpRows = <<>>

\* line 436: a PSNR of the pair (src_seq, tgt_seq) joins the table
Observe ==
    /\ rpPc = "sweep"
    /\ Len(AllPsnr(rpTable, rpN)) < MaxObservations
    /\ \E src \in 0..(rpN - 1), tgt \in 0..(rpN - 1), psnr \in PsnrValues :
          rpTable' = [rpTable EXCEPT ![src][tgt] = Append(@, psnr)]
    /\ UNCHANGED <<rpN, rpPc, rpA, rpRows>>
    /\ UNCHANGED notRp

\* lines 517-529: the sweep is over, the matrix A is built
BuildMatrix ==
    /\ rpPc = "sweep"
    /\ rpA' = ScoreMatrix(rpTable, rpN)
    /\ rpPc' = "rows"
    /\ UNCHANGED <<rpN, rpTable, rpRows>>
    /\ UNCHANGED notRp

\* lines 530-538: one pass of the loop over i
ReportRow ==
    /\ rpPc = "rows" /\ Len(rpRows) < rpN
    /\ rpRows' = Append(rpRows, ReportRowOf(rpA, rpN, Len(rpRows)))
    /\ UNCHANGED <<rpN, rpTable, rpPc, rpA>>
    /\ UNCHANGED notRp

\* lines 539-540: the rows are written as the CSV
WriteReport ==
    /\ rpPc = "rows" /\ Len(rpRows) = rpN
    /\ rpPc' = "written"
    /\ UNCHANGED <<rpN, rpTable, rpA, rpRows>>
    /\ UNCHANGED notRp

RpNext ==
    \/ Observe
    \/ BuildMatrix
    \/ ReportRow
    \/ WriteReport

(***************************************************************************)
(* _internal_maybe_mirror_and_predict                                      *)
(***************************************************************************)

\* the spatial axes a checkpoint can allow for mirroring
SpatialAxes == {0, 1, 2}

\* self.allowed_mirroring_axes: None, or the non-empty tuple a training run
\* recorded
AxesOptions ==
    {[given |-> FALSE, axes |-> {}]}
    \cup {[given |-> TRUE, axes |-> a] : a \in (SUBSET SpatialAxes) \ {{}}}

\* a set of sets as a list, in some fixed order
RECURSIVE ListOf(_)
ListOf(S) ==
    IF S = {} THEN <<>>
    ELSE LET c == CHOOSE x \in S : TRUE IN <<c>> \o ListOf(S \ {c})

\* itertools.combinations(dims, n)
Combinations(dims, n) == ListOf({c \in SUBSET dims : Cardinality(c) = n})

\* AxesCombinations limited to the single axes
AxesCombinationsSingle(axes) == Combinations({m + 2 : m \in axes}, 1)

\* lines 706-708: the combinations of i + 1 of the dimensions m + 2, for
\* i in range(len(mirror_axes))
RECURSIVE CombinationsUpTo(_, _, _)
CombinationsUpTo(dims, i, k) ==
    IF i = k THEN <<>>
    ELSE Combinations(dims, i + 1) \o CombinationsUpTo(dims, i + 1, k)

AxesCombinations(axes) ==
    CombinationsUpTo({m + 2 : m \in axes}, 0, Cardinality(axes))

\* line 704: max(mirror_axes) <= x.ndim - 3
MirrorAxesValid(axes, ndim) == \A m \in axes : m <= ndim - 3

\* a forward pass on the input flipped along flipIn, its outputs flipped
\* along flipOut
SubPrediction(flipIn, flipOut) == [flipIn |-> flipIn, flipOut |-> flipOut]

\* line 685: 1 if i in available_channel else 0, for i in range(num_channel)
SourceCode(n, av) == [k \in 1..n |-> IF (k - 1) \in av THEN 1 ELSE 0]

\* line 392: F.one_hot of the target index
OneHot(n, t) == [k \in 1..n |-> IF k - 1 = t THEN 1 ELSE 0]

\* ZerosLike keeping the code it is given
ZerosLikeKeep(code) == code

\* torch.zeros_like of line 687
ZerosLike(code) == [k \in 1..Len(code) |-> 0]

\* line 686: torch.cat([tsf_src_code, target_code, zeros], dim=1)
FusedTargetCode(n, av, targetCode) == SourceCode(n, av) \o targetCode \o <<0>>

\* line 687: torch.cat([tsf_src_code, zeros_like(target_code), ones], dim=1)
FusedSegCode(n, av, targetCode) ==
    SourceCode(n, av) \o ZerosLike(targetCode) \o <<1>>

MrInit ==
    /\ mrUse \in BOOLEAN
    /\ mrAxes \in AxesOptions
    /\ mrNdim \in {4, 5}
    /\ mrFusion \in BOOLEAN
    /\ mrNumChannel \in 1..MaxCodeChannels
    /\ mrAvail \in (SUBSET (0..(mrNumChannel - 1))) \ {{}}
    /\ mrTarget \in 0..(mrNumChannel - 1)
    /\ mrPc = "first"
    /\ mrTodo = <<>>
    /\ mrPrediction = <<>> /\ mrMask = <<>> /\ mrLatent = <<>>
    /\ mrPasses = 0
    /\ mrDivisor = 0
    /\ mrTgtCode = <<>> /\ mrSegCode = <<>>
    /\ mrRaised = "none"

MrIdle ==
    /\ mrUse = FALSE
    /\ mrAxes = [given |-> FALSE, axes |-> {}]
    /\ mrNdim = 5
    /\ mrFusion = FALSE
    /\ mrNumChannel = 1
    /\ mrAvail = {0}
    /\ mrTarget = 0
    /\ mrPc = "idle"
    /\ mrTodo = <<>>
    /\ mrPrediction = <<>> /\ mrMask = <<>> /\ mrLatent = <<>>
    /\ mrPasses = 0
    /\ mrDivisor = 0
    /\ mrTgtCode = <<>> /\ mrSegCode = <<>>
    /\ mrRaised = "none"

mrArgs == <<mrUse, mrAxes, mrNdim, mrFusion, mrNumChannel, mrAvail, mrTarget>>

\* lines 672-708: the forward pass on the tile as it is (with the fused codes
\* in the fusion path), then the choice of the mirror axes
MirrorFirstPass ==
    /\ mrPc = "first"
    /\ mrPrediction' = <<SubPrediction({}, {})>>
    /\ mrMask' = <<SubPrediction({}, {})>>
    /\ mrLatent' = <<SubPrediction({}, {})>>
    /\ mrPasses' = 1
    /\ mrTgtCode' = IF mrFusion
                    THEN FusedTargetCode(mrNumChannel, mrAvail,
                                         OneHot(mrNumChannel, mrTarget))
                    ELSE <<>>
    /\ mrSegCode' = IF mrFusion
                    THEN FusedSegCode(mrNumChannel, mrAvail,
                                      OneHot(mrNumChannel, mrTarget))
                    ELSE <<>>
    /\ IF ~(mrUse /\ mrAxes.given)
       THEN /\ mrPc' = "returned"
            /\ UNCHANGED <<mrTodo, mrRaised>>
       ELSE IF ~MirrorAxesValid(mrAxes.axes, mrNdim)
       THEN /\ mrPc' = "raised"
            /\ mrRaised' = "AssertionError"
            /\ UNCHANGED mrTodo
       ELSE /\ mrPc' = "mirror"
            /\ mrTodo' = AxesCombinations(mrAxes.axes)
            /\ UNCHANGED mrRaised
    /\ UNCHANGED mrDivisor
    /\ UNCHANGED mrArgs
    /\ UNCHANGED notMr

\* lines 709-729: the pass of one combination, flipped in and flipped back
MirrorPass ==
    /\ mrPc = "mirror" /\ mrTodo # <<>>
    /\ LET axes == Head(mrTodo)
       IN /\ mrPrediction' = Append(mrPrediction, SubPrediction(axes, axes))
          /\ mrMask' = Append(mrMask, SubPrediction(axes, axes))
          /\ mrLatent' = Append(mrLatent, SubPrediction(axes, axes))
    /\ mrPasses' = mrPasses + 1
    /\ mrTodo' = Tail(mrTodo)
    /\ UNCHANGED <<mrPc, mrDivisor, mrTgtCode, mrSegCode, mrRaised>>
    /\ UNCHANGED mrArgs
    /\ UNCHANGED notMr

\* lines 730-733: the three sums divided by len(axes_combinations) + 1
MirrorDivide ==
    /\ mrPc = "mirror" /\ mrTodo = <<>>
    /\ mrDivisor' = Len(AxesCombinations(mrAxes.axes)) + 1
    /\ mrPc' = "returned"
    /\ UNCHANGED <<mrTodo, mrPrediction, mrMask, mrLatent, mrPasses, mrTgtCode,
                   mrSegCode, mrRaised>>
    /\ UNCHANGED mrArgs
    /\ UNCHANGED notMr

MrNext ==
    \/ MirrorFirstPass
    \/ MirrorPass
    \/ MirrorDivide

(***************************************************************************)
(* _internal_get_sliding_window_slicers                                    *)
(***************************************************************************)

\* line 830 after the assertion of line 819: the data has a channel axis and
\* three spatial axes
ImageRank == 3

\* the patch sizes a configuration can hold, up to the rank of the image
PatchSizes == UNION {Shapes(r, MaxTileExtent) : r \in 1..ImageRank}

\* image_size[1:]
Rest(shape) == Tail(shape)

\* pad_nd_image of line 826 has made every axis the patch covers at least as
\* large as the patch; a patch of lower rank covers the trailing axes
PaddedFor(shape, patch) ==
    LET off == Len(shape) - Len(patch)
    IN \A d \in 1..Len(patch) : d + off >= 1 => patch[d] <= shape[d + off]

\* slice(si, si + ti)
PatchSlice(si, ti) == <<si, si + ti>>

\* SliceIndices of an image of one slice
SliceIndicesFirst(n) == <<0>>

\* range(image_size[0])
SliceIndices(n) == [i \in 1..n |-> i - 1]

\* the list a for loop builds: the lists of the iterations, in order
RECURSIVE ForEach(_, _)
ForEach(Body(_), seq) ==
    IF seq = <<>> THEN <<>> ELSE Body(Head(seq)) \o ForEach(Body, Tail(seq))

\* lines 651-656: the slicers of the slice-wise mode
SlicersPerSlice(shape, offs, patch) ==
    ForEach(LAMBDA d :
        ForEach(LAMBDA sx :
            ForEach(LAMBDA sy :
                <<<<"all", d, PatchSlice(sx, patch[1]),
                    PatchSlice(sy, patch[2])>>>>,
                offs[2]),
            offs[1]),
        SliceIndices(shape[1]))

\* lines 663-668: the slicers over three tiled axes
SlicersPerTile(offs, patch) ==
    ForEach(LAMBDA sx :
        ForEach(LAMBDA sy :
            ForEach(LAMBDA sz :
                <<<<"all", PatchSlice(sx, patch[1]), PatchSlice(sy, patch[2]),
                    PatchSlice(sz, patch[3])>>>>,
                offs[3]),
            offs[2]),
        offs[1])

ScInit ==
    /\ scImage \in Shapes(ImageRank, MaxTileExtent)
    /\ scPatch \in PatchSizes
    /\ PaddedFor(scImage, scPatch)
    /\ scFrac \in StepFractions
    /\ scPc = "call"
    /\ scSteps = <<>>
    /\ scSlicers = <<>>
    /\ scRaised = "none"

ScIdle ==
    /\ scImage = <<>>
    /\ scPatch = <<>>
    /\ scFrac = [num |-> 1, den |-> 2]
    /\ scPc = "idle"
    /\ scSteps = <<>>
    /\ scSlicers = <<>>
    /\ scRaised = "none"

\* lines 639-647 and 658-659: the assertion on the ranks, then the offsets of
\* the tiled axes
SlicerSteps ==
    /\ scPc = "call"
    /\ IF Len(scPatch) < Len(scImage)
       THEN IF Len(scPatch) # Len(scImage) - 1
            THEN /\ scRaised' = "AssertionError"
                 /\ scPc' = "raised"
                 /\ UNCHANGED scSteps
            ELSE /\ scSteps' = ComputeSteps(Rest(scImage), scPatch, scFrac)
                 /\ scPc' = "loop"
                 /\ UNCHANGED scRaised
       ELSE /\ scSteps' = ComputeSteps(scImage, scPatch, scFrac)
            /\ scPc' = "loop"
            /\ UNCHANGED scRaised
    /\ UNCHANGED <<scImage, scPatch, scFrac, scSlicers>>
    /\ UNCHANGED notSc

\* lines 651-656 and 663-669: the loops that append the slicers, and return
SlicerLoops ==
    /\ scPc = "loop"
    /\ scSlicers' = IF Len(scPatch) < Len(scImage)
                    THEN SlicersPerSlice(scImage, scSteps, scPatch)
                    ELSE SlicersPerTile(scSteps, scPatch)
    /\ scPc' = "returned"
    /\ UNCHANGED <<scImage, scPatch, scFrac, scSteps, scRaised>>
    /\ UNCHANGED notSc

ScNext ==
    \/ SlicerSteps
    \/ SlicerLoops

(***************************************************************************)
(* ImageEncoder: the extent of one spatial axis through forward; the three *)
(* axes are treated alike (every stride is one number for the three axes)  *)
(***************************************************************************)

RECURSIVE Product(_)
Product(seq) == IF seq = <<>> THEN 1 ELSE Head(seq) * Product(Tail(seq))

\* the stride lists of 1..MaxStages stages
StrideLists == UNION {[1..n -> 1..MaxStride] : n \in 1..MaxStages}

\* nn.Conv3d on an axis: floor((extent + 2 * padding - kernel) / stride) + 1
ConvExtent(extent, kernel, stride, padding) ==
    ((extent + 2 * padding - kernel) \div stride) + 1

\* lines 33 and 41: the convolution of a stage, kernel_size=se, padding=0,
\* stride=se
DownExtent(extent, se) == ConvExtent(extent, se, se, 0)

\* AttnResBlock (convnext.py): a residual stack, its output has the shape of
\* its input
AttnResBlockExtent(extent) == extent

\* UpScale that also counts the stride of stage 0
UpScaleAll(strides, i) == Product(SubSeq(strides, 1, i))

\* lines 28 and 43: up_scale of stage i (from 1), the product of the strides
\* of the stages after the first up to i
UpScale(strides, i) == Product(SubSeq(strides, 2, i))

\* lines 48-58: the 1x1 convolution and, when up_scale is not 1, the
\* nearest-neighbour upsampling by up_scale
UpExtent(extent, scale) ==
    IF scale = 1 THEN ConvExtent(extent, 1, 1, 0)
    ELSE ConvExtent(extent, 1, 1, 0) * scale

\* VectorQuantizer2 (quantize.py): the quantized latent has the shape of z
QuantizeExtent(extent) == extent

EnInit ==
    /\ enStrides \in StrideLists
    /\ \E m \in 1..MaxBlocks : enInput = m * Product(enStrides)
    /\ enPc = "stages"
    /\ enStage = 0
    /\ enX = enInput
    /\ enFeatures = <<>>
    /\ enOut = 0
    /\ enRaised = "none"

EnIdle ==
    /\ enStrides = <<>>
    /\ enInput = 0
    /\ enPc = "idle"
    /\ enStage = 0
    /\ enX = 0
    /\ enFeatures = <<>>
    /\ enOut = 0
    /\ enRaised = "none"

\* lines 68-71: one stage of forward: x = down(x), f = up(x), append f
EncoderStage ==
    /\ enPc = "stages" /\ enStage < Len(enStrides)
    /\ LET i == enStage + 1
           x == AttnResBlockExtent(DownExtent(enX, enStrides[i]))
       IN /\ enX' = x
          /\ enFeatures' = Append(enFeatures, UpExtent(x, UpScale(enStrides, i)))
          /\ enStage' = i
    /\ UNCHANGED <<enStrides, enInput, enPc, enOut, enRaised>>
    /\ UNCHANGED notEn

\* lines 72-75: torch.cat of the features along the channels (their spatial
\* shapes must agree), the 1x1 convolution conv_latent, the quantizer
EncoderLatent ==
    /\ enPc = "stages" /\ enStage = Len(enStrides)
    /\ IF \E i \in 1..Len(enFeatures) : enFeatures[i] # enFeatures[1]
       THEN /\ enRaised' = "RuntimeError"
            /\ enPc' = "raised"
            /\ UNCHANGED enOut
       ELSE /\ enOut' = QuantizeExtent(ConvExtent(enFeatures[1], 1, 1, 0))
            /\ enPc' = "returned"
            /\ UNCHANGED enRaised
    /\ UNCHANGED <<enStrides, enInput, enStage, enX, enFeatures>>
    /\ UNCHANGED notEn

EnNext ==
    \/ EncoderStage
    \/ EncoderLatent

(***************************************************************************)
(* predict_entry_point_modelfolder and predict_entry_point                 *)
(***************************************************************************)

EntryPoints == {"predict_entry_point_modelfolder", "predict_entry_point"}

\* lines 920 and 1037: the devices the entry points accept
CliDevices == {"cpu", "cuda", "mps"}

\* what -device can be given as
DeviceArguments == CliDevices \cup {"other"}

\* StoreTrue with the default of a flag taken as False
StoreTrueUnset(default, given) == given

\* argparse action='store_true': True when the flag is given, else the default
StoreTrue(default, given) == IF given THEN TRUE ELSE default

\* lines 875 and 979: default= of --disable_tta
DisableTtaDefault(entry) == entry = "predict_entry_point"

ClInit ==
    /\ clEntry \in EntryPoints
    /\ clFlagGiven \in BOOLEAN
    /\ clDevice \in DeviceArguments
    /\ IF clEntry = "predict_entry_point"
       THEN clPartId \in 0..MaxParts /\ clNumParts \in 1..MaxParts
       ELSE clPartId = 0 /\ clNumParts = 1
    /\ clPc = "parse"
    /\ clDisableTta = FALSE
    /\ clUseMirroring = FALSE
    /\ clRaised = "none"

ClIdle ==
    /\ clEntry = "none"
    /\ clFlagGiven = FALSE
    /\ clDevice = "cuda"
    /\ clPartId = 0
    /\ clNumParts = 1
    /\ clPc = "idle"
    /\ clDisableTta = FALSE
    /\ clUseMirroring = FALSE
    /\ clRaised = "none"

clArgs == <<clEntry, clFlagGiven, clDevice, clPartId, clNumParts>>

\* lines 856-913 and 954-1026: parse_args
CliParse ==
    /\ clPc = "parse"
    /\ clDisableTta' = StoreTrue(DisableTtaDefault(clEntry), clFlagGiven)
    /\ clPc' = "check"
    /\ UNCHANGED <<clUseMirroring, clRaised>>
    /\ UNCHANGED clArgs
    /\ UNCHANGED notCl

\* lines 920-921 and 1035-1038: the assertions on the arguments
CliCheck ==
    /\ clPc = "check"
    /\ IF \/ (clEntry = "predict_entry_point" /\ ~(clPartId < clNumParts))
          \/ clDevice \notin CliDevices
       THEN /\ clRaised' = "AssertionError"
            /\ clPc' = "raised"
       ELSE /\ clPc' = "construct"
            /\ UNCHANGED clRaised
    /\ UNCHANGED <<clDisableTta, clUseMirroring>>
    /\ UNCHANGED clArgs
    /\ UNCHANGED notCl

\* lines 935-942 and 1052-1059: the predictor is constructed with
\* use_mirroring=not args.disable_tta
CliConstruct ==
    /\ clPc = "construct"
    /\ clUseMirroring' = ~clDisableTta
    /\ clPc' = "constructed"
    /\ UNCHANGED <<clDisableTta, clRaised>>
    /\ UNCHANGED clArgs
    /\ UNCHANGED notCl

ClNext ==
    \/ CliParse
    \/ CliCheck
    \/ CliConstruct

(***************************************************************************)
(* The tile loop of _internal_predict_sliding_window_return_logits         *)
(***************************************************************************)

\* the patch sizes of the slice-wise and of the volumetric mode
TilePatchSizes(max) == Shapes(ImageRank - 1, max) \cup Shapes(ImageRank, max)

\* the voxels of a volume of the given shape
Voxels(shape) ==
    {v \in [1..Len(shape) -> 0..MaxNormExtent] :
        \A a \in 1..Len(shape) : v[a] < shape[a]}

\* line 830: the slicers the caller passes
SlicersFor(shape, patch, frac) ==
    IF Len(patch) < Len(shape)
    THEN SlicersPerSlice(shape, ComputeSteps(Rest(shape), patch, frac), patch)
    ELSE SlicersPerTile(ComputeSteps(shape, patch, frac), patch)

\* sl[1:]: the slicer without the entry of the channels
Spatial(sl) == Tail(sl)

\* the voxel lies in the region the spatial entries select; the first entry
\* is an index in the slice-wise mode
InRegion(v, entries, sliceWise) ==
    \A a \in 1..Len(entries) :
        IF sliceWise /\ a = 1 THEN v[a] = entries[a]
        ELSE entries[a][1] <= v[a] /\ v[a] < entries[a][2]

\* the position of the voxel in the patch of the tile
PatchPosition(v, entries, sliceWise) ==
    IF sliceWise
    THEN [a \in 1..(Len(entries) - 1) |-> v[a + 1] - entries[a + 1][1]]
    ELSE [a \in 1..Len(entries) |-> v[a] - entries[a][1]]

\* line 768: value_scaling_factor=10
ValueScalingFactor == 10

\* a separable bell over the patch, largest in the centre
Bell(patch, pos) ==
    Product([a \in 1..Len(patch) |->
                1 + (IF pos[a] < patch[a] - 1 - pos[a] THEN pos[a]
                     ELSE patch[a] - 1 - pos[a])])

BellPeak(patch) ==
    Product([a \in 1..Len(patch) |-> 1 + ((patch[a] - 1) \div 2)])

\* compute_gaussian: the bell scaled so that its peak is the value scaling
\* factor, with a floor so that no weight is zero
GaussianWeight(patch, pos) ==
    LET w == (ValueScalingFactor * Bell(patch, pos)) \div BellPeak(patch)
    IN IF w = 0 THEN 1 ELSE w

\* lines 782-784: prediction * gaussian if self.use_gaussian else prediction
AccumulatorWeight(useGaussian, patch, pos) ==
    IF useGaussian THEN GaussianWeight(patch, pos) ELSE 1

\* NormalizationWeight counting the tiles
NormalizationWeightOne(useGaussian, patch, pos) == 1

\* line 785: gaussian if self.use_gaussian else 1
NormalizationWeight(useGaussian, patch, pos) ==
    IF useGaussian THEN GaussianWeight(patch, pos) ELSE 1

\* torch.zeros of lines 756-765
ZeroVolume(shape) == [v \in Voxels(shape) |-> 0]

\* volume[region] += weight
AddInRegion(volume, entries, sliceWise, Weight(_)) ==
    [v \in DOMAIN volume |->
        IF InRegion(v, entries, sliceWise)
        THEN volume[v] + Weight(PatchPosition(v, entries, sliceWise))
        ELSE volume[v]]

NmInit ==
    /\ nmImage \in Shapes(ImageRank, MaxNormExtent)
    /\ nmPatch \in TilePatchSizes(MaxNormExtent)
    /\ PaddedFor(nmImage, nmPatch)
    /\ nmFrac \in StepFractions
    /\ nmGaussian \in BOOLEAN
    /\ nmSlicers = SlicersFor(nmImage, nmPatch, nmFrac)
    /\ nmTile = 0
    /\ nmPc = "allocate"
    /\ nPredictions = <<>>
    /\ nmHits = <<>>
    /\ accLogits = <<>>
    /\ accMask = <<>>
    /\ accLatent = <<>>
    /\ nmDivByZero = FALSE

NmIdle ==
    /\ nmImage = <<>>
    /\ nmPatch = <<>>
    /\ nmFrac = [num |-> 1, den |-> 2]
    /\ nmGaussian = FALSE
    /\ nmSlicers = <<>>
    /\ nmTile = 0
    /\ nmPc = "idle"
    /\ nPredictions = <<>>
    /\ nmHits = <<>>
    /\ accLogits = <<>>
    /\ accMask = <<>>
    /\ accLatent = <<>>
    /\ nmDivByZero = FALSE

nmArgs == <<nmImage, nmPatch, nmFrac, nmGaussian, nmSlicers>>

\* lines 756-769: the zero accumulators and the zero normalization volume
NormAllocate ==
    /\ nmPc = "allocate"
    /\ nPredictions' = ZeroVolume(nmImage)
    /\ nmHits' = ZeroVolume(nmImage)
    /\ accLogits' = ZeroVolume(nmImage)
    /\ accMask' = ZeroVolume(nmImage)
    /\ accLatent' = ZeroVolume(nmImage)
    /\ nmPc' = "tiles"
    /\ UNCHANGED <<nmTile, nmDivByZero>>
    /\ UNCHANGED nmArgs
    /\ UNCHANGED notNm

\* lines 773-785: one tile: the three accumulators take the weighted
\* prediction in the region sl, n_predictions the weight in sl[1:]
NormTile ==
    /\ nmPc = "tiles" /\ nmTile < Len(nmSlicers)
    /\ LET sl == nmSlicers[nmTile + 1]
           sliceWise == Len(nmPatch) < Len(nmImage)
           acc(pos) == AccumulatorWeight(nmGaussian, nmPatch, pos)
           norm(pos) == NormalizationWeight(nmGaussian, nmPatch, pos)
           one(pos) == 1
       IN /\ accLogits' = AddInRegion(accLogits, Tail(sl), sliceWise, acc)
          /\ accMask' = AddInRegion(accMask, Tail(sl), sliceWise, acc)
          /\ accLatent' = AddInRegion(accLatent, Tail(sl), sliceWise, acc)
          /\ nPredictions' =
                AddInRegion(nPredictions, Spatial(sl), sliceWise, norm)
          /\ nmHits' = AddInRegion(nmHits, Spatial(sl), sliceWise, one)
    /\ nmTile' = nmTile + 1
    /\ UNCHANGED <<nmPc, nmDivByZero>>
    /\ UNCHANGED nmArgs
    /\ UNCHANGED notNm

\* lines 788-790: the three accumulators divided by n_predictions
NormDivide ==
    /\ nmPc = "tiles" /\ nmTile = Len(nmSlicers)
    /\ nmDivByZero' = \E v \in DOMAIN nPredictions : nPredictions[v] = 0
    /\ nmPc' = "divided"
    /\ UNCHANGED <<nmTile, nPredictions, nmHits, accLogits, accMask, accLatent>>
    /\ UNCHANGED nmArgs
    /\ UNCHANGED notNm

NmNext ==
    \/ NormAllocate
    \/ NormTile
    \/ NormDivide

(***************************************************************************)
(* self.one2one_translate_psnr over the predict_from_files runs of one     *)
(* predictor; a list of observations is modelled by its length             *)
(***************************************************************************)

\* __init__ (lines 43-69) binds no one2one_translate_psnr
NoTable == [bound |-> FALSE, counts |-> <<>>]

\* line 240: [[[] for _ in range(N)] for _ in range(N)]
FreshTable(n) ==
    [bound |-> TRUE, counts |-> [s \in 0..(n - 1) |-> [t \in 0..(n - 1) |-> 0]]]

\* lines 429-436: the observation of source s for target t, made when the
\* target is one of the available channels
RecordPair(table, s, t, av) ==
    IF t \in Range(av)
    THEN [table EXCEPT !.counts[s][t] = @ + 1]
    ELSE table

\* line 424: the source loop of a target
RECURSIVE RecordSources(_, _, _, _)
RecordSources(table, k, t, av) ==
    IF k > Len(av) THEN table
    ELSE RecordSources(RecordPair(table, av[k], t, av), k + 1, t, av)

\* line 391: the target loop of a case
RECURSIVE RecordTargets(_, _, _, _)
RecordTargets(table, t, n, av) ==
    IF t = n THEN table
    ELSE RecordTargets(RecordSources(table, 1, t, av), t + 1, n, av)

PsInit ==
    /\ psN \in 1..MaxChannels
    /\ psRun = 1
    /\ psOutputNone = FALSE
    /\ psPc = "start"
    /\ psTable = NoTable
    /\ psProcessed = <<>>

PsIdle ==
    /\ psN = 1
    /\ psRun = 0
    /\ psOutputNone = FALSE
    /\ psPc = "idle"
    /\ psTable = NoTable
    /\ psProcessed = <<>>

\* lines 217-250: the output folder is resolved; the table is bound anew
\* inside the block of 'if output_folder is not None'
RunStart ==
    /\ psPc = "start"
    /\ \E none \in BOOLEAN :
          /\ psOutputNone' = none
          /\ psTable' = IF none THEN psTable ELSE FreshTable(psN)
    /\ psProcessed' = <<>>
    /\ psPc' = "cases"
    /\ UNCHANGED <<psN, psRun>>
    /\ UNCHANGED notPs

\* lines 367-510: one case; with ofile None line 399 raises before the first
\* observation
RunCase ==
    /\ psPc = "cases" /\ Len(psProcessed) < MaxRunCases
    /\ \E av \in AvailSeqs(psN) :
          IF psOutputNone
          THEN /\ psPc' = "raised"
               /\ UNCHANGED <<psTable, psProcessed>>
          ELSE /\ psTable' = RecordTargets(psTable, 0, psN, av)
               /\ psProcessed' = Append(psProcessed, av)
               /\ UNCHANGED psPc
    /\ UNCHANGED <<psN, psRun, psOutputNone>>
    /\ UNCHANGED notPs

\* lines 266-267 and 511-546: no case is left, the run ends
RunEnd ==
    /\ psPc = "cases"
    /\ psPc' = "done"
    /\ UNCHANGED <<psN, psRun, psOutputNone, psTable, psProcessed>>
    /\ UNCHANGED notPs

\* predict_from_files is called again on the predictor
RunAgain ==
    /\ psPc \in {"done", "raised"} /\ psRun < MaxRuns
    /\ psRun' = psRun + 1
    /\ psPc' = "start"
    /\ UNCHANGED <<psN, psOutputNone, psTable, psProcessed>>
    /\ UNCHANGED notPs

PsNext ==
    \/ RunStart
    \/ RunCase
    \/ RunEnd
    \/ RunAgain

\* the function groups at rest
FnIdle == FdIdle /\ GmIdle /\ PlIdle /\ RpIdle /\ MrIdle /\ ScIdle /\ EnIdle /\ ClIdle /\ NmIdle /\ PsIdle

(***************************************************************************)
InitSW == SWInit /\ ItIdle /\ LsIdle /\ FlIdle /\ FnIdle

SpecSW == InitSW /\ [][SWNext]_vars

InitIter == ItInit /\ SWIdle /\ LsIdle /\ FlIdle /\ FnIdle

SpecIter == InitIter /\ [][ItNext]_vars

InitLists == LsInit /\ SWIdle /\ ItIdle /\ FlIdle /\ FnIdle

SpecLists == InitLists /\ [][LsNext]_vars

InitFiles == FlInit /\ SWIdle /\ ItIdle /\ FnIdle

SpecFiles == InitFiles /\ [][FlNext]_vars

InitFolds ==
    FdInit /\ SWIdle /\ ItIdle /\ LsIdle /\ FlIdle /\ GmIdle /\ PlIdle
    /\ RpIdle /\ MrIdle /\ ScIdle /\ EnIdle /\ ClIdle /\ NmIdle /\ PsIdle

SpecFolds == InitFolds /\ [][FdNext]_vars

InitGeom ==
    GmInit /\ SWIdle /\ ItIdle /\ LsIdle /\ FlIdle /\ FdIdle /\ PlIdle
    /\ RpIdle /\ MrIdle /\ ScIdle /\ EnIdle /\ ClIdle /\ NmIdle /\ PsIdle

SpecGeom == InitGeom /\ [][GmNext]_vars

InitLogits ==
    PlInit /\ SWIdle /\ ItIdle /\ LsIdle /\ FlIdle /\ FdIdle /\ GmIdle
    /\ RpIdle /\ MrIdle /\ ScIdle /\ EnIdle /\ ClIdle /\ NmIdle /\ PsIdle

SpecLogits == InitLogits /\ [][PlNext]_vars

InitReport ==
    RpInit /\ SWIdle /\ ItIdle /\ LsIdle /\ FlIdle /\ FdIdle /\ GmIdle
    /\ PlIdle /\ MrIdle /\ ScIdle /\ EnIdle /\ ClIdle /\ NmIdle /\ PsIdle

SpecReport == InitReport /\ [][RpNext]_vars

InitMirror ==
    MrInit /\ SWIdle /\ ItIdle /\ LsIdle /\ FlIdle /\ FdIdle /\ GmIdle
    /\ PlIdle /\ RpIdle /\ ScIdle /\ EnIdle /\ ClIdle /\ NmIdle /\ PsIdle

SpecMirror == InitMirror /\ [][MrNext]_vars

InitSlicers ==
    ScInit /\ SWIdle /\ ItIdle /\ LsIdle /\ FlIdle /\ FdIdle /\ GmIdle
    /\ PlIdle /\ RpIdle /\ MrIdle /\ EnIdle /\ ClIdle /\ NmIdle /\ PsIdle

SpecSlicers == InitSlicers /\ [][ScNext]_vars

InitEncoder ==
    EnInit /\ SWIdle /\ ItIdle /\ LsIdle /\ FlIdle /\ FdIdle /\ GmIdle
    /\ PlIdle /\ RpIdle /\ MrIdle /\ ScIdle /\ ClIdle /\ NmIdle /\ PsIdle

SpecEncoder == InitEncoder /\ [][EnNext]_vars

InitCli ==
    ClInit /\ SWIdle /\ ItIdle /\ LsIdle /\ FlIdle /\ FdIdle /\ GmIdle
    /\ PlIdle /\ RpIdle /\ MrIdle /\ ScIdle /\ EnIdle /\ NmIdle /\ PsIdle

SpecCli == InitCli /\ [][ClNext]_vars

InitNorm ==
    NmInit /\ SWIdle /\ ItIdle /\ LsIdle /\ FlIdle /\ FdIdle /\ GmIdle
    /\ PlIdle /\ RpIdle /\ MrIdle /\ ScIdle /\ EnIdle /\ ClIdle /\ PsIdle

SpecNorm == InitNorm /\ [][NmNext]_vars

InitPsnr ==
    PsInit /\ SWIdle /\ ItIdle /\ LsIdle /\ FlIdle /\ FdIdle /\ GmIdle
    /\ PlIdle /\ RpIdle /\ MrIdle /\ ScIdle /\ EnIdle /\ ClIdle /\ NmIdle

SpecPsnr == InitPsnr /\ [][PsNext]_vars

(***************************************************************************)
(* Claims on the sliding-window group                                      *)
(***************************************************************************)

\* C1: with perform_everything_on_device the internal execution is retried on
\* host memory exactly when the first attempt failed by resource exhaustion,
\* at most once; a failure of the retry reaches the caller, and a first
\* failure that is not resource exhaustion is not retried.
C1_RetryExactlyOnResourceExhaustion ==
    /\ attemptNo <= 2
    /\ attemptNo = 2 => (attemptsLog[1].fail = "OOM" /\ ~doOnDevice)
    /\ (swPc = "raised" /\ swBranch = "try" /\ Len(attemptsLog) = 1)
          => attemptsLog[1].fail # "OOM"
    /\ (swPc = "raised" /\ Len(attemptsLog) = 2)
          => swRaised = attemptsLog[2].raised

\* C2: once the accumulators are divided, an infinite value in any of the
\* three makes the execution raise; no returned result holds an infinite
\* value.
C2_NoInfiniteResult ==
    \A i \in 1..Len(swResult) :
        ~(swResult[i].infLogits \/ swResult[i].infMask \/ swResult[i].infLatent)

\* C19: on a device that is not the accelerator perform_everything_on_device
\* is False whatever was passed to the constructor, on the accelerator it is
\* the passed value; in every state of the predictor the flag being True
\* implies the accelerator device.
C19_OnDeviceOnlyOnAccelerator ==
    /\ device # "cuda" => ~performOnDevice
    /\ device = "cuda" => performOnDevice = passedOnDevice
    /\ performOnDevice => device = "cuda"

\* a predictor built on the cpu with the flag passed as True has finished a
\* sliding-window call, which ran off the device
C19_Witness ==
    /\ device = "cpu" /\ passedOnDevice /\ ~performOnDevice
    /\ swPc = "done" /\ Len(attemptsLog) = 1 /\ ~attemptsLog[1].onDevice

\* C20: every internal execution that failed, at whatever point, left through
\* the handler with both caches cleared and raised the error that caused the
\* failure.
C20_HandlerReraisesOriginal ==
    \A i \in 1..Len(attemptsLog) :
        attemptsLog[i].fail # "none" =>
            /\ attemptsLog[i].raised = attemptsLog[i].fail
            /\ attemptsLog[i].clears = 2

(***************************************************************************)
(* Claims on the data-iterator group                                       *)
(***************************************************************************)
Pending == rCount - nReady

JobsPerCase(n, av) == 3 * n + 3 * n * Len(av) + Len(av) + Len(av)

C4_DistinctOutputPaths ==
    \A i, j \in 1..Len(rCase) :
        (i # j /\ rCase[i].toDisk /\ rCase[j].toDisk)
            => rCase[i].path # rCase[j].path

\* C5: the call does not leave the export pool, and does not return, before
\* every entry of r has been retrieved; the returned list has one entry per
\* submitted job, in submission order.
C5_AllResultsRetrieved ==
    (itPc \in {"report", "returned"} \/ itRaised = "UnboundLocalError")
        => (~poolOpen /\ ret = IndexSeq(rCount))

C5_Witness ==
    /\ itPc = "returned"
    /\ rCount > JobsPerCase(1, <<0>>)
    /\ Len(ret) = rCount

\* C6: a record whose ofile is None is processed without raising.
C6_NoneOfileDoesNotRaise ==
    ofileNone => itRaised # "TypeError"

\* the steps of one case: targets ascending, for each the fused step, then
\* one step per source in the order of available_channel
ExpectedSteps(n, av) ==
    [k \in 1..(n * (Len(av) + 1)) |->
        LET t == (k - 1) \div (Len(av) + 1)
            j == (k - 1) % (Len(av) + 1)
        IN <<t, IF j = 0 THEN -1 ELSE av[j]>>]

IsPrefix(p, q) ==
    /\ Len(p) <= Len(q)
    /\ \A i \in 1..Len(p) : p[i] = q[i]

\* the position of the step of a job among the steps of its case
StepOf(job, av) ==
    job.tgt * (Len(av) + 1) + 1
      + (IF job.src = -1 THEN 0 ELSE CHOOSE k \in 1..Len(av) : av[k] = job.src)

\* C7: cases are taken in the order the iterator yields them, targets in
\* ascending channel index, sources in the order of available_channel, and
\* the submissions of a step are all made before the next step starts: the
\* jobs of a case belong to steps already started and lie in step order.
\* (Stated for the loop over the records; line 511 and what follows it start
\* no step and submit nothing.)
C7_ProcessingOrder ==
    /\ caseIdx <= nCases
    /\ itPc \in {"fetch", "check", "sleep", "target", "source", "raised"} =>
          /\ IsPrefix(steps, ExpectedSteps(numChannel, avail))
          /\ \A i \in 1..Len(rCase) :
                LET k == StepOf(rCase[i], avail)
                IN /\ k <= Len(steps)
                   /\ steps[k] = <<rCase[i].tgt, rCase[i].src>>
                   /\ i < Len(rCase) => k <= StepOf(rCase[i + 1], avail)

C7_Witness ==
    /\ itPc = "fetch" /\ caseIdx = 2
    /\ numChannel = 2 /\ avail = <<1, 0>>
    /\ Len(steps) = 6

\* C17: the accelerator memory cache has been reset before the first result
\* of a run is produced, and every run that has ended, by a return or by an
\* exception, has reset both the Gaussian-weighting cache and the accelerator
\* memory cache in its closing lines.
C17_CachesResetAtStartAndEveryEnd ==
    /\ Len(steps) > 0 => deviceCleared
    /\ itPc \in {"returned", "raised"} => endClears = {"gaussian", "device"}

(***************************************************************************)
(* Claims on predict_from_files                                            *)
(***************************************************************************)
OutputFolderFiles == {ArgsFile, DatasetFile, PlansFile, ContributionFile}

\* C8: with a cascaded configuration and no previous-stage folder the failure
\* is raised before any file is written to the output folder, before the
\* case list is built and before any prediction is run.
C8_FailsBeforeAnyProcessing ==
    flRaised = "AssertionError"
        => (filesWritten = {} /\ ~caseListBuilt /\ predictionsRun = 0)

\* C8 (amended): with a cascaded configuration and no previous-stage folder
\* the case list is never built and no prediction is run; the failure is
\* raised after the call arguments, the two descriptors and the contribution
\* table have been written when an output folder is resolvable, and with
\* nothing written when none is.
C8_FailsBeforeListsAndPrediction ==
    /\ (cascaded /\ ~prevGiven) => (~caseListBuilt /\ predictionsRun = 0)
    /\ flRaised = "AssertionError"
          => /\ cascaded /\ ~prevGiven
             /\ filesWritten = IF outputFolder = "folder"
                               THEN OutputFolderFiles ELSE {}

C8_Witness ==
    /\ flRaised = "AssertionError"
    /\ outputFolder = "folder"
    /\ Len(srcList) > 0

\* C9: when an output folder is resolvable the call arguments, the dataset
\* descriptor, the plans descriptor and the contribution table (one row per
\* target channel plus the seg row) are written before the first prediction;
\* when none is resolvable none of them is ever written.
C9_FilesBeforePrediction ==
    /\ (predictionsRun > 0 /\ outKind # "none")
          => /\ OutputFolderFiles \subseteq filesWritten
             /\ tsRows = tsfChannels + 1
    /\ outKind = "none" => filesWritten = {}

C9_Witness ==
    /\ predictionsRun > 0
    /\ outKind = "list"
    /\ tsfChannels = 2

(***************************************************************************)
(* Claims on _manage_input_and_output_lists                                *)
(***************************************************************************)
\* the cases of the shard, and for each the output path the call pairs it with
ShardCases == Shard(srcList, partId, numParts)

PairedOutput(i) == IF outKind = "folder" THEN ShardCases[i] ELSE outList[i]

StridedCases(p, n) == SelectSeq(srcList, LAMBDA c : (c - 1) % n = p)

\* C11: a call that filters nothing (overwrite True, or no output given)
\* returns exactly the cases at indices p, p+n, p+2n, ... of the full list, in
\* order; the shards 0..n-1 of the list are pairwise disjoint and every case
\* is in exactly one of them.
C11_ShardIsStride ==
    (lsPc = "done" /\ (overwrite \/ outKind = "none")) =>
        /\ lsResult.err = "none"
        /\ lsResult.inputs = StridedCases(partId, numParts)
        /\ \A c \in Range(srcList) :
              Cardinality({p \in 0..(numParts - 1) :
                             c \in Range(Shard(srcList, p, numParts))}) = 1
        /\ \A p \in 0..(numParts - 1) :
              LET sh == Shard(srcList, p, numParts)
              IN \A j, k \in 1..Len(sh) : j # k => sh[j] # sh[k]

\* three cases in two shards: shard 0 holds the first and the third case
C11_Witness ==
    /\ lsPc = "done" /\ overwrite
    /\ Len(srcList) = 3 /\ numParts = 2 /\ partId = 0
    /\ lsResult.inputs = <<1, 3>>

\* C29: for an output folder or an output list with one entry per case of
\* the full list, the three returned lists have the same length and entry k
\* of each belongs to the same case, whatever the sharding and the overwrite
\* filter.
C29_ListsIndexAligned ==
    (lsPc = "done" /\ outKind \in {"folder", "list"}) =>
        /\ lsResult.err = "none"
        /\ Len(lsResult.outputs) = Len(lsResult.inputs)
        /\ Len(lsResult.segs) = Len(lsResult.inputs)
        /\ \A k \in 1..Len(lsResult.inputs) :
              /\ lsResult.outputs[k] = lsResult.inputs[k]
              /\ lsResult.segs[k] = (IF prevGiven THEN lsResult.inputs[k] ELSE 0)

(***************************************************************************)
(* Claims on auto_detect_available_folds                                   *)
(***************************************************************************)

\* C12: the call returns exactly the indices of the subfolders named fold_<k>
\* that hold the checkpoint file; fold_all, a fold folder without the
\* checkpoint and a folder that is no fold folder never contribute.
C12_FoldsWithCheckpoint ==
    fdPc = "done" =>
        /\ \A k \in 0..MaxFold :
              k \in Range(fdResult)
                 <=> [prefix |-> "fold_", tail |-> "int", idx |-> k]
                        \in fdCheckpoints
        /\ Range(fdResult) \subseteq 0..MaxFold
        /\ \A i, j \in 1..Len(fdResult) : i < j => fdResult[i] < fdResult[j]

\* fold_0, fold_1 and fold_all exist, the checkpoint is in fold_0 only: [0]
C12_Witness ==
    /\ fdPc = "done"
    /\ fdDirs = {[prefix |-> "fold_", tail |-> "int", idx |-> 0],
                 [prefix |-> "fold_", tail |-> "int", idx |-> 1],
                 [prefix |-> "fold_", tail |-> "all", idx |-> 0]}
    /\ fdCheckpoints = {[prefix |-> "fold_", tail |-> "int", idx |-> 0]}
    /\ fdResult = <<0>>

(***************************************************************************)
(* Claims on the geometry of the sliding window                            *)
(***************************************************************************)

\* C13: on every axis (the extent being at least the patch extent) the first
\* offset is 0, the last is extent - patch_extent, the offsets do not
\* decrease, and two consecutive offsets differ by at most the patch extent,
\* so that the tiles cover the axis without a gap.
C13_OffsetsCoverExtent ==
    gmPc \in {"execute", "crop", "done"} =>
        \A d \in 1..Len(gmPadded) :
            LET st == gmSteps[d]
            IN /\ gmPadded[d] >= gmPatch[d]
               /\ Len(st) >= 1
               /\ st[1] = 0
               /\ st[Len(st)] = gmPadded[d] - gmPatch[d]
               /\ \A i \in 1..(Len(st) - 1) :
                     /\ st[i] <= st[i + 1]
                     /\ st[i + 1] - st[i] <= gmPatch[d]
               /\ \A v \in 0..(gmPadded[d] - 1) :
                     \E i \in 1..Len(st) : st[i] <= v /\ v < st[i] + gmPatch[d]

\* the longest axis tiled with patches of extent 1 at step fraction 1: one
\* tile per voxel
C13_Witness ==
    /\ gmPc = "done"
    /\ gmPadded[1] = MaxExtent /\ gmPatch[1] = 1 /\ gmFrac = [num |-> 1, den |-> 1]
    /\ Len(gmSteps[1]) = MaxExtent
    /\ gmSteps[1][2] = 1

\* C14: the three returned tensors have the spatial shape of the input image,
\* also when the input is smaller than the patch size on one or more axes.
C14_PaddingInverted ==
    gmPc = "done" =>
        /\ gmOut[1].logits = gmShape
        /\ gmOut[1].mask = gmShape
        /\ gmOut[1].latent = gmShape

\* an input smaller than the patch by an odd and by an even amount
C14_Witness ==
    /\ gmPc = "done"
    /\ gmShape[1] = 1 /\ gmPatch[1] = 2 /\ gmPadded[1] = 2
    /\ gmShape[2] = 1 /\ gmPatch[2] = 3 /\ gmPadded[2] = 3
    /\ gmOut[1].logits = <<1, 1>>

(***************************************************************************)
(* Claims on predict_logits_from_preprocessed_data and                     *)
(* predict_single_npy_array                                                *)
(***************************************************************************)

\* C15: while predict_logits_from_preprocessed_data runs the thread count of
\* torch is min(8, ambient thread count), and once the call has ended the
\* thread count is the ambient value again.
C15_ThreadsCappedAndRestored ==
    /\ plPc = "folds" =>
          torchThreads = (IF ambientThreads < 8 THEN ambientThreads ELSE 8)
    /\ plPc \in {"returned", "raised"} => torchThreads = ambientThreads

\* C16: predict_single_npy_array on an initialized predictor completes
\* without raising: it exports when an output path is given and otherwise
\* returns the label map, with the probabilities when they are asked for.
C16_SingleArrayCompletes ==
    /\ npPc # "raised"
    /\ npPc = "returned" =>
          npResult = (IF npOutputGiven THEN "exported"
                      ELSE IF npSaveProb THEN "label map, probabilities"
                      ELSE "label map")

\* C22: a call with F parameter sets that returns has run F sliding-window
\* passes one after another, pass i with the weights of fold i, which were
\* loaded right before it; each of the three outputs is the sum of the F
\* pass outputs divided by F, undivided when F = 1; the network is left with
\* the weights of the last fold.
C22_FoldEnsemble ==
    /\ plPc = "returned" =>
          /\ Len(plPasses) = numFolds
          /\ \A i \in 1..numFolds : plPasses[i] = i
          /\ plSums.prediction = IndexSeq(numFolds)
          /\ plSums.mask = IndexSeq(numFolds)
          /\ plSums.latent = IndexSeq(numFolds)
          /\ plDivisor = (IF numFolds = 1 THEN 0 ELSE numFolds)
          /\ plLoaded = numFolds
    /\ plPc = "folds" =>
          /\ Len(plPasses) = foldIdx
          /\ plLoaded = foldIdx

\* an ensemble of two folds has returned
C22_Witness ==
    /\ plPc = "returned" /\ numFolds = 2
    /\ plPasses = <<1, 2>> /\ plDivisor = 2 /\ plLoaded = 2

(***************************************************************************)
(* Claims on the end-of-run contribution report                            *)
(***************************************************************************)

\* the normalized score of a pair, in units of 1 / (global std + eps): the
\* mean of the pair minus the mean of all observations
PairScore(i, j) ==
    LET all == AllPsnr(rpTable, rpN)
    IN Frac(SeqSum(rpTable[i][j]) * Len(all) - SeqSum(all) * Len(rpTable[i][j]),
            Len(rpTable[i][j]) * Len(all))

ExpectedA(i, j) == IF rpTable[i][j] = <<>> THEN Zero ELSE PairScore(i, j)

RECURSIVE SumOver(_, _, _)
SumOver(F(_), n, j) ==
    IF j = n THEN Zero ELSE FracAdd(F(j), SumOver(F, n, j + 1))

\* C18: in the written report A[i][j] is the normalized score of the pair
\* (source i, target j) when the pair has an observation and 0 otherwise;
\* there is one row per channel 0..N-1, and the row of channel i holds
\* (1/N) * sum_j A[i][j] as contribution-to and -(1/N) * sum_j A[j][i] as
\* contribution-from.
C18_ContributionReport ==
    rpPc = "written" =>
        /\ \A i, j \in 0..(rpN - 1) : FracEq(rpA[i][j], ExpectedA(i, j))
        /\ Len(rpRows) = rpN
        /\ \A i \in 0..(rpN - 1) :
              LET row == rpRows[i + 1]
                  RowOfA(j) == ExpectedA(i, j)
                  ColOfA(j) == ExpectedA(j, i)
              IN /\ row.channel = i
                 /\ FracEq(row.metric_ct,
                           FracDivInt(SumOver(RowOfA, rpN, 0), rpN))
                 /\ FracEq(row.metric_cd,
                           FracDivInt(FracSub(Zero, SumOver(ColOfA, rpN, 0)), rpN))

\* two channels, source 0 predicts target 1 well and source 1 predicts
\* target 0 badly: channel 0 contributes, channel 1 does not
C18_Witness ==
    /\ rpPc = "written" /\ rpN = 2
    /\ rpTable[0][1] = <<30>> /\ rpTable[1][0] = <<20>>
    /\ rpTable[0][0] = <<>> /\ rpTable[1][1] = <<>>
    /\ rpRows[1].metric_ct.n > 0 /\ rpRows[1].metric_cd.n > 0
    /\ rpRows[2].metric_ct.n < 0 /\ rpRows[2].metric_cd.n < 0

(***************************************************************************)
(* Claims on the differentiation map and the normalized source images      *)
(***************************************************************************)

\* the submissions of a kind made for the current case
JobsOf(kind) == {i \in 1..Len(rCase) : rCase[i].kind = kind}

\* the step of source s for target t of the current case has been made
StepMade(t, s) == \E k \in 1..Len(steps) : steps[k] = <<t, s>>

\* C26: for a case with an ofile and each target t, the differentiation map
\* is submitted at most once, not before every available source has been
\* processed for t, and only when t is an available channel; the submitted
\* map is the sum over the available sources of the absolute difference of
\* the matched single-source prediction and the target image, divided by the
\* number of available sources. The normalized image of each available
\* source is submitted once per case, in the iteration of target 0.
C26_DifferentiationMapAndSources ==
    (caseIdx >= 1 /\ ~ofileNone) =>
        /\ \A t \in 0..(numChannel - 1) :
              LET maps == {i \in JobsOf("imaging_differentiation_map") :
                              rCase[i].tgt = t}
                  sent == {i \in 1..Len(mdSent) : mdSent[i].tgt = t}
              IN /\ Cardinality(maps) <= 1
                 /\ maps # {} =>
                       /\ t \in Range(avail)
                       /\ \A s \in Range(avail) : StepMade(t, s)
                 /\ (t \in Range(avail) /\ StepMade(t, avail[Len(avail)]))
                       => maps # {}
                 /\ Cardinality(sent) = Cardinality(maps)
                 /\ \A i \in sent :
                       mdSent[i].map = [terms |-> avail, div |-> Len(avail)]
        /\ \A i \in JobsOf("norm_src") :
              rCase[i].tgt = 0 /\ rCase[i].src \in Range(avail)
        /\ \A s \in Range(avail) :
              Cardinality({i \in JobsOf("norm_src") : rCase[i].src = s})
                  = (IF StepMade(0, s) THEN 1 ELSE 0)

\* a case of two channels of which only channel 1 is available has been
\* processed: one map, for target 1, and one normalized source image
C26_Witness ==
    /\ itPc = "fetch" /\ caseIdx >= 1 /\ ~ofileNone
    /\ numChannel = 2 /\ avail = <<1>>
    /\ Len(mdSent) = 1 /\ mdSent[1].tgt = 1
    /\ mdSent[1].map = [terms |-> <<1>>, div |-> 1]
    /\ Cardinality(JobsOf("norm_src")) = 1

(***************************************************************************)
(* Claims on _internal_maybe_mirror_and_predict                            *)
(***************************************************************************)
RECURSIVE Pow2(_)
Pow2(k) == IF k = 0 THEN 1 ELSE 2 * Pow2(k - 1)

\* the sub-predictions of a sum: one per subset of the mirrored dimensions,
\* each flipped back along the dimensions it was flipped along
MeanOfAllFlips(sum, axes) ==
    /\ Len(sum) = Pow2(Cardinality(axes))
    /\ {sum[i].flipIn : i \in 1..Len(sum)} = SUBSET {m + 2 : m \in axes}
    /\ \A i \in 1..Len(sum) : sum[i].flipOut = sum[i].flipIn

\* C21: with mirroring enabled and k axes configured the call runs 2^k - 1
\* passes besides the first, one per non-empty subset of the axes, flipped in
\* and flipped back along the subset, and returns for each of the three
\* outputs the sum of the 2^k sub-predictions divided by 2^k; with mirroring
\* disabled or no axes configured it runs one pass and divides nothing.
C21_MirrorAveraging ==
    mrPc = "returned" =>
        IF mrUse /\ mrAxes.given
        THEN /\ mrPasses = Pow2(Cardinality(mrAxes.axes))
             /\ MeanOfAllFlips(mrPrediction, mrAxes.axes)
             /\ MeanOfAllFlips(mrMask, mrAxes.axes)
             /\ MeanOfAllFlips(mrLatent, mrAxes.axes)
             /\ mrDivisor = Pow2(Cardinality(mrAxes.axes))
        ELSE /\ mrPasses = 1
             /\ mrPrediction = <<SubPrediction({}, {})>>
             /\ mrMask = <<SubPrediction({}, {})>>
             /\ mrLatent = <<SubPrediction({}, {})>>
             /\ mrDivisor = 0

\* two mirror axes: the first pass and three flipped passes, divided by 4
C21_Witness ==
    /\ mrPc = "returned" /\ mrUse
    /\ mrAxes = [given |-> TRUE, axes |-> {0, 1}]
    /\ mrPasses = 4 /\ mrDivisor = 4
    /\ \E i \in 1..Len(mrPrediction) : mrPrediction[i].flipIn = {2, 3}

\* C23: in the fusion path the target code has 2N+1 slots: slots 0..N-1 are
\* the indicator of the available channels, slots N..2N-1 the one-hot of the
\* target, slot 2N is 0; the segmentation code has the same first N slots,
\* zeros in slots N..2N-1 and 1 in slot 2N.
C23_FusedCodes ==
    (mrPc # "first" /\ mrFusion) =>
        LET n == mrNumChannel
        IN /\ Len(mrTgtCode) = 2 * n + 1
           /\ Len(mrSegCode) = 2 * n + 1
           /\ \A i \in 0..(n - 1) :
                 /\ mrTgtCode[i + 1] = (IF i \in mrAvail THEN 1 ELSE 0)
                 /\ mrSegCode[i + 1] = (IF i \in mrAvail THEN 1 ELSE 0)
                 /\ mrTgtCode[n + i + 1] = (IF i = mrTarget THEN 1 ELSE 0)
                 /\ mrSegCode[n + i + 1] = 0
           /\ mrTgtCode[2 * n + 1] = 0
           /\ mrSegCode[2 * n + 1] = 1

\* two channels of which only the second is available, target the first
C23_Witness ==
    /\ mrPc = "returned" /\ mrFusion
    /\ mrNumChannel = 2 /\ mrAvail = {1} /\ mrTarget = 0
    /\ mrTgtCode = <<0, 1, 1, 0, 0>>
    /\ mrSegCode = <<0, 1, 0, 0, 1>>

(***************************************************************************)
(* Claims on _internal_get_sliding_window_slicers                          *)
(***************************************************************************)

\* the slice [lo, hi) has the extent of the patch and lies in an axis of the
\* given extent
PatchSizedInside(sl, patch, extent) ==
    /\ sl[2] - sl[1] = patch
    /\ 0 <= sl[1] /\ sl[2] <= extent

C25_LatentAtProductOfStrides ==
    enPc = "returned" => enOut * Product(enStrides) = enInput

\* C25, amended: forward returns for every input divisible by the product
\* of the strides, and the extent of the returned latent is the extent of
\* the input divided by the stride of the first stage: the features of the
\* later stages are upsampled by the product of the later strides before
\* they are concatenated; only x after the last stage has the extent of the
\* input divided by the product of all strides.
C25_LatentAtFirstStride ==
    /\ enPc # "raised"
    /\ enPc = "returned" =>
          /\ enOut * enStrides[1] = enInput
          /\ enX * Product(enStrides) = enInput
          /\ \A i \in 1..Len(enFeatures) : enFeatures[i] = enOut

\* two stages of stride 2: the latent of an input of extent 8 has extent 4
C25_Witness ==
    /\ enPc = "returned"
    /\ enStrides = <<2, 2>> /\ enInput = 8
    /\ enX = 2 /\ enOut = 4

(***************************************************************************)
(* Claims on the command-line entry points                                 *)
(***************************************************************************)

\* C27: for every accepted command line the dataset-identifier entry point
\* constructs the predictor with use_mirroring False, with or without
\* --disable_tta; the model-folder entry point constructs it with
\* use_mirroring True exactly when --disable_tta is absent.
C27_MirroringOfEntryPoints ==
    clPc = "constructed" =>
        clUseMirroring = (IF clEntry = "predict_entry_point" THEN FALSE
                          ELSE ~clFlagGiven)

\* the dataset-identifier entry point without --disable_tta has constructed
\* a predictor that does not mirror
C27_Witness ==
    /\ clPc = "constructed"
    /\ clEntry = "predict_entry_point" /\ ~clFlagGiven
    /\ clPartId = 1 /\ clNumParts = 2
    /\ ~clUseMirroring

(***************************************************************************)
(* Claims on the normalization volume                                      *)
(***************************************************************************)

\* C28: when the tile loop has finished every voxel of the normalization
\* volume has been incremented by at least one tile and is above zero, so
\* no division of the accumulators is by zero; every tile adds to the
\* normalization volume the weight it applies to the three accumulators, in
\* the same region.
C28_NormalizationPositive ==
    /\ (nmPc = "divided" \/ (nmPc = "tiles" /\ nmTile = Len(nmSlicers))) =>
          \A v \in Voxels(nmImage) : nmHits[v] >= 1 /\ nPredictions[v] > 0
    /\ nmPc = "divided" => ~nmDivByZero
    /\ nmPc \in {"tiles", "divided"} =>
          /\ accLogits = nPredictions
          /\ accMask = nPredictions
          /\ accLatent = nPredictions

\* a volume of two slices tiled slice-wise with Gaussian blending, with
\* overlapping tiles: a voxel has been incremented by two tiles
C28_Witness ==
    /\ nmPc = "divided" /\ nmGaussian
    /\ Len(nmPatch) = 2 /\ nmImage[1] = 2
    /\ \E v \in Voxels(nmImage) : nmHits[v] >= 2

(***************************************************************************)
(* Claims on the PSNR table                                                *)
(***************************************************************************)

\* the observations the table holds for the pair; an unbound table holds
\* none
Observations(s, t) == IF psTable.bound THEN psTable.counts[s][t] ELSE 0

\* the cases processed in the run in which both channels are available
CasesWithBoth(s, t) ==
    Cardinality({k \in 1..Len(psProcessed) :
                    s \in Range(psProcessed[k]) /\ t \in Range(psProcessed[k])})

\* C30: within a run, after any number of processed cases, the table holds
\* for each pair (s, t) as many observations as cases of the run in which s
\* and t are both available: none from a case without the target, and none
\* carried over from an earlier run.
C30_ObservationsPerRun ==
    psPc \in {"cases", "done", "raised"} =>
        \A s, t \in 0..(psN - 1) : Observations(s, t) = CasesWithBoth(s, t)

====
